---- MODULE Spec2Model ----
(***************************************************************************)
(* Model of action-transfer-issues: the Transfer Engine                    *)
(* (src/lib/transfer-issues.ts) driving a Repository Model against a       *)
(* remote issue tracker.  The repository holds three versions of the       *)
(* Repository class: src/lib/repository.ts, the module the engine's        *)
(* import "./repository" resolves to (copy only), the class in             *)
(* src/index.ts (native transfer or copy), and the compiled                *)
(* dist/lib/repository.js with dist/lib/transfer-issues.js (copy only).    *)
(* The variable impl says which of the three a run exercises.              *)
(***************************************************************************)
EXTENDS Integers, Sequences, FiniteSets, TLC

VARIABLES
    impl,          \* "lib" (src/lib/repository.ts), "index" (class of src/index.ts)
                   \* or "dist" (dist/lib/repository.js, dist/lib/transfer-issues.js)
    source,        \* transferIssues parameter 'source'
    destination,   \* transferIssues parameter 'destination'
    input,         \* the action's input 'issue_numbers'
    issueNumbers,  \* the Set issueNumbers of main, in iteration order
    srcIssues,     \* remote: issue number -> issue held by the source repository
    srcPrivate,    \* remote: source repository's 'private' flag, or no flag
    dstPrivate,    \* remote: destination repository's 'private' flag, or no flag
    dstIssues,     \* remote: issues of the destination repository, by number
    dstLabels,     \* remote: label names of the destination repository
    run,           \* number of the current run of transferIssues
    pc,            \* position of the run
    error,         \* why the run failed ("none" while it has not)
    todo,          \* issue numbers the for loop has not reached yet
    issue,         \* sourceIssue of the current iteration
    origin,        \* repository parsed from issue.repository_url
    sourceCaches,  \* #issueCache and #labelCache of the source's Repository objects
    issueCache,    \* destinationRepo.#issueCache
    labelCache,    \* destinationRepo.#labelCache
    visibility,    \* destinationRepo.visibility
    srcVisibility, \* visibility of the Repository built from the origin URL
    pageIndex,     \* pageIndex of the running populate loop
    labels,        \* label list prepared for the current issue
    li,            \* index of the label createLabel is working on
    labelResults,  \* what #createLabel did and returned, per label of the issue
    mode,          \* path chosen for the current issue
    ids,           \* sourceIssueId and destinationRepoId of the native path
    transferredIssue, \* issue returned by the transferIssue mutation
    calls,         \* remote calls of the current run, in order
    results,       \* what transferIssue was given and returned, per run
    reported,      \* failures reported through core.setFailed, per run
    observations   \* success log lines of transferIssues

vars == <<impl, source, destination, input, issueNumbers, srcIssues, srcPrivate,
          dstPrivate, sourceCaches, dstIssues, dstLabels, run, pc, error, todo, issue,
          origin, issueCache, labelCache, visibility, srcVisibility,
          pageIndex, labels, li, labelResults, mode, ids, transferredIssue, calls, results,
          reported, observations>>

\* what the steps of a run read and never assign
inputVars == <<impl, source, destination, input, issueNumbers, srcPrivate, dstPrivate,
               sourceCaches>>

remoteVars == <<srcIssues, dstIssues, dstLabels>>

\* fields of destinationRepo that outlive one transferIssue call
cacheVars == <<issueCache, labelCache, visibility>>

\* locals of one transferIssue call
localVars == <<origin, srcVisibility, pageIndex, labels, li, labelResults, mode, ids, transferredIssue>>

-----------------------------------------------------------------------------
(* Bounds of the model *)

MaxRuns == 2

\* Longest repository name of the identifiers of SpecIdentifiers.
MaxRepoLength == 32

\* Most full pages a listing of SpecPages fills.
MaxPages == 2

\* Longest input 'issue_numbers' that SpecFrontEnd enumerates.
MaxInputLength == 3

-----------------------------------------------------------------------------
(* Strings *)

Min(a, b) == IF a < b THEN a ELSE b

Max(S) == CHOOSE m \in S : \A k \in S : k <= m

\* String.prototype.substring(a, b) for 0 <= a <= b: the characters a..b-1,
\* the end clamped to the length of the string.
Substring(s, a, b) == SubSeq(s, a + 1, Min(b, Len(s)))

CharAt(s, i) == SubSeq(s, i, i)

SlashPositions(s) == {i \in 1..Len(s) : CharAt(s, i) = "/"}

UpperCaseLetters == "ABCDEFGHIJKLMNOPQRSTUVWXYZ"

LowerCaseLetters == "abcdefghijklmnopqrstuvwxyz"

LowerChar(c) ==
    IF \E i \in 1..26 : CharAt(UpperCaseLetters, i) = c
    THEN CharAt(LowerCaseLetters, CHOOSE i \in 1..26 : CharAt(UpperCaseLetters, i) = c)
    ELSE c

RECURSIVE toLowerCase(_)
toLowerCase(s) ==
    IF Len(s) = 0 THEN ""
    ELSE LowerChar(CharAt(s, 1)) \o toLowerCase(SubSeq(s, 2, Len(s)))


-----------------------------------------------------------------------------
(* Identifiers, origin URLs and the marker label *)

\* Faulty variant of MatchesOwnerRepo: /^.+\/.+$/, which lets further "/" through.
MatchesOwnerRepoLoosely(s) ==
    \E i \in SlashPositions(s) : 1 < i /\ i < Len(s)

\* /^[^/]+\/[^/]+$/ : exactly one "/", with a non-empty segment on each side.
MatchesOwnerRepo(s) ==
    /\ Cardinality(SlashPositions(s)) = 1
    /\ \A i \in SlashPositions(s) : 1 < i /\ i < Len(s)

\* /^(?<owner>.+)\/(?<repo>.+)$/ : the greedy owner group ends at the last "/"
\* that leaves both groups non-empty.
ParseOwnerRepo(s) ==
    LET i == Max({k \in SlashPositions(s) : 1 < k /\ k < Len(s)})
    IN  [owner |-> SubSeq(s, 1, i - 1), repo |-> SubSeq(s, i + 1, Len(s))]

\* issue.repository_url as the remote reports it for an issue of owner/repo.
RepositoryUrl(owner, repo) == "https://api.github.com/repos/" \o owner \o "/" \o repo

\* End of the greedy group (?<_>.+) of both origin patterns: the last "/" that
\* still leaves "x/y", with x and y non-empty, behind it.
UrlPrefixEnd(url) ==
    Max({i \in SlashPositions(url) :
            /\ i > 1
            /\ \E j \in SlashPositions(url) : j > i + 1 /\ j < Len(url)})

\* /^(?<_>.+)\/(?<sourceOwner>.+)\/(?<sourceRepo>.+)$/ of src/index.ts
IndexOrigin(url) ==
    LET i == UrlPrefixEnd(url)
        j == Max({k \in SlashPositions(url) : k > i + 1 /\ k < Len(url)})
    IN  [owner |-> SubSeq(url, i + 1, j - 1), repo |-> SubSeq(url, j + 1, Len(url))]

\* /^(?<_>.+)\/(?<source>.+\/.+)$/ of src/lib/repository.ts: 'source' is kept
\* whole; the owner and repo fields are what its first "/" separates.
LibOrigin(url) ==
    LET i == UrlPrefixEnd(url)
        src == SubSeq(url, i + 1, Len(url))
        j == CHOOSE k \in SlashPositions(src) : \A m \in SlashPositions(src) : k <= m
    IN  [owner |-> SubSeq(src, 1, j - 1), repo |-> SubSeq(src, j + 1, Len(src))]

OriginOf(url) == IF impl = "index" THEN IndexOrigin(url) ELSE LibOrigin(url)

\* `${source.owner}/${source.repo}` (index.ts) and 'source' (lib/repository.ts)
FullName(r) == r.owner \o "/" \o r.repo

MarkerPrefix == "transferred-from: "

MarkerMaxLength == 50

\* Faulty variant of MarkerName: the name is not truncated.
MarkerNameUntruncated(src) == MarkerPrefix \o src

\* `transferred-from: ${source}`.substring(0, 50)
MarkerName(src) == Substring(MarkerPrefix \o src, 0, MarkerMaxLength)

\* labels: `transferred-from: ${source}`.substring(0, 50) of #populateIssueCache;
\* dist/lib/repository.js filters by the whole `transferred-from: ${source}`.
IssueCacheFilter(src) ==
    IF impl = "dist" THEN MarkerPrefix \o src
    ELSE Substring(MarkerPrefix \o src, 0, MarkerMaxLength)

-----------------------------------------------------------------------------
(* Labels *)

\* A label of an issue as the remote delivers it: a bare string
\* (kind = "string") or an object (kind = "object") with a name.
StringLabel(n) == [kind |-> "string", name |-> n]

ObjectLabel(n) == [kind |-> "object", name |-> n]

isStrictLabel(label) == label.kind = "object" /\ Len(label.name) > 0

\* Faulty variant of transferredFromLabel: the marker names the destination.
transferredToLabel(src) == ObjectLabel(MarkerName(destination))

transferredFromLabel(src) == ObjectLabel(MarkerName(src))

\* Faulty variant of ReduceLabels: the branch for bare strings is missing.
RECURSIVE ReduceStrictLabelsOnly(_, _)
ReduceStrictLabelsOnly(acc, rest) ==
    IF rest = <<>> THEN acc
    ELSE ReduceStrictLabelsOnly(
             IF isStrictLabel(Head(rest)) THEN Append(acc, Head(rest)) ELSE acc,
             Tail(rest))

\* issue.labels.reduce(..., [transferredFromLabel]) of src/index.ts
RECURSIVE ReduceLabels(_, _)
ReduceLabels(acc, rest) ==
    IF rest = <<>> THEN acc
    ELSE LET label == Head(rest)
         IN  ReduceLabels(
                 IF isStrictLabel(label) THEN Append(acc, label)
                 ELSE IF label.kind = "string" THEN Append(acc, ObjectLabel(label.name))
                 ELSE acc,
                 Tail(rest))

IndexPreparedLabels(issueLabels, src) ==
    ReduceLabels(<<transferredFromLabel(src)>>, issueLabels)

\* src/lib/repository.ts: #createLabel for each of issue.labels, then for the
\* marker; issues.create is sent [...issue.labels, transferredFromLabel].
LibPreparedLabels(issueLabels, src) ==
    issueLabels \o <<transferredFromLabel(src)>>

PreparedLabels(issueLabels, src) ==
    IF impl = "index" THEN IndexPreparedLabels(issueLabels, src)
    ELSE LibPreparedLabels(issueLabels, src)

\* The marker entry of a prepared label list.
MarkerEntry(ls) == IF impl = "index" THEN ls[1] ELSE ls[Len(ls)]

NamesOf(ls) == [k \in DOMAIN ls |-> ls[k].name]

Range(f) == {f[k] : k \in DOMAIN f}

-----------------------------------------------------------------------------
(* The remote *)

perPage == 100

\* One page of a listing: items (page-1)*per_page+1 .. page*per_page.
ListPage(list, page, per_page) ==
    SubSeq(list, (page - 1) * per_page + 1, Min(page * per_page, Len(list)))

\* issues.listForRepo({labels}): the destination's issues carrying the label.
IssuesLabelled(name) == SelectSeq(dstIssues, LAMBDA i : name \in i.labels)

\* Which repository a remote call of the given position addresses.
TargetOf(position) ==
    IF position \in {"getIssue", "populateSourceVisibility", "getSourceIssueId"}
    THEN "source"
    ELSE IF position = "transferIssueMutation" THEN "both"
    ELSE "destination"

\* The record of one remote call: the position that made it, the issue number
\* the loop is at, its arguments and whether it settled without an error.
Call(position, n, arg, ok) ==
    [op |-> position, target |-> TargetOf(position), issue |-> n, arg |-> arg, ok |-> ok]

-----------------------------------------------------------------------------
(* The input 'issue_numbers', src/index.ts lines 47-62 *)

Digits == "0123456789"

\* Characters that StringToNumber strips from both ends of a string; of
\* these the inputs of the model use the space and the tab.
WhiteSpace == {" ", "\t"}

IsDigit(c) == \E i \in 1..10 : CharAt(Digits, i) = c

DigitValue(c) == (CHOOSE i \in 1..10 : CharAt(Digits, i) = c) - 1

\* String.prototype.split(" "): the pieces between single spaces, the empty
\* pieces included.
RECURSIVE Split(_)
Split(s) ==
    IF \A i \in 1..Len(s) : CharAt(s, i) # " " THEN <<s>>
    ELSE LET i == CHOOSE k \in 1..Len(s) :
                      /\ CharAt(s, k) = " "
                      /\ \A j \in 1..(k - 1) : CharAt(s, j) # " "
         IN  <<SubSeq(s, 1, i - 1)>> \o Split(SubSeq(s, i + 1, Len(s)))

\* The string without the white space at its ends.
RECURSIVE Trim(_)
Trim(s) ==
    IF s = "" THEN s
    ELSE IF CharAt(s, 1) \in WhiteSpace THEN Trim(SubSeq(s, 2, Len(s)))
    ELSE IF CharAt(s, Len(s)) \in WhiteSpace THEN Trim(SubSeq(s, 1, Len(s) - 1))
    ELSE s

\* The value of a string of decimal digits.
RECURSIVE DecimalValue(_)
DecimalValue(s) ==
    IF s = "" THEN 0
    ELSE 10 * DecimalValue(SubSeq(s, 1, Len(s) - 1)) + DigitValue(CharAt(s, Len(s)))

\* Number(token) for tokens of digits, letters and white space: <<n>> for the
\* number n, <<>> for NaN.  A token that is empty once trimmed is the number 0.
Number(token) ==
    LET t == Trim(token)
    IN  IF \A i \in 1..Len(t) : IsDigit(CharAt(t, i))
        THEN <<DecimalValue(t)>>
        ELSE <<>>

\* issueNumbers.add(Number(issueNumber)) for each token that is not NaN: a
\* Set keeps the first occurrence of each number, in insertion order.
RECURSIVE AddTokens(_, _)
AddTokens(set, tokens) ==
    IF tokens = <<>> THEN set
    ELSE LET n == Number(Head(tokens))
         IN  AddTokens(IF n # <<>> /\ n[1] \notin {set[k] : k \in DOMAIN set}
                       THEN Append(set, n[1]) ELSE set,
                       Tail(tokens))

\* core.getInput("issue_numbers"): the value given to the action, without
\* the white space at its ends.
getInput(value) == Trim(value)

\* Lines 49-59: the input is split only when it is a non-empty string.
ParseIssueNumbers(value) ==
    IF getInput(value) = "" THEN <<>> ELSE AddTokens(<<>>, Split(getInput(value)))

\* The input string that lists the numbers nums, one space between them.
RECURSIVE Join(_)
Join(nums) ==
    IF nums = <<>> THEN ""
    ELSE IF Len(nums) = 1 THEN ToString(nums[1])
    ELSE ToString(nums[1]) \o " " \o Join(Tail(nums))

-----------------------------------------------------------------------------
(* The state after construction *)

\* A run of the action about to start: nothing parsed, no Repository Model.
FreshRun ==
    /\ pc = "main"
    /\ error = "none"
    /\ todo = <<>>
    /\ issue = <<>>
    /\ origin = <<>>
    /\ issueCache = <<>>
    /\ labelCache = <<>>
    /\ visibility = "undefined"
    /\ srcVisibility = "undefined"
    /\ pageIndex = 0
    /\ labels = <<>>
    /\ li = 0
    /\ labelResults = <<>>
    /\ mode = "none"
    /\ ids = <<>>
    /\ transferredIssue = <<>>
    /\ calls = <<>>

\* The action started with the inputs source s, destination d and
\* issue_numbers in, against the remote the other parameters describe.
\* The 'private' field of what repos.get returns: a flag, or nothing when the
\* field is missing.
Flag(b) == <<b>>

NoFlag == <<>>

\* #labelCache = [] and #issueCache = [] of a new Repository.
EmptyCaches == [issueCache |-> <<>>, labelCache |-> <<>>]

ScenarioOnInput(i, s, d, in, sIssues, sp, dp, dIssues, dLabels) ==
    /\ impl = i
    /\ source = s
    /\ destination = d
    /\ input = in
    /\ issueNumbers = <<>>
    /\ srcIssues = sIssues
    /\ srcPrivate = sp
    /\ dstPrivate = dp
    /\ sourceCaches = EmptyCaches
    /\ dstIssues = dIssues
    /\ dstLabels = dLabels
    /\ run = 1
    /\ results = <<>>
    /\ reported = <<>>
    /\ observations = <<>>
    /\ FreshRun

\* The same, with issue_numbers listing the numbers nums.
Scenario(i, s, d, nums, sIssues, sp, dp, dIssues, dLabels) ==
    ScenarioOnInput(i, s, d, Join(nums), sIssues, Flag(sp), Flag(dp), dIssues, dLabels)

-----------------------------------------------------------------------------
(* transferIssues, src/lib/transfer-issues.ts *)

RemotePositions ==
    {"getIssue", "populateIssueCache", "populateLabelCache", "createLabelCall",
     "populateSourceVisibility", "populateVisibility", "getSourceIssueId",
     "getDestinationRepoId", "transferIssueMutation", "addLabels", "createIssue"}

\* An error thrown inside transferIssues reaches the catch of src/index.ts
\* (lines 75-81), which reports it with core.setFailed; the run is over.
Failed(reason) ==
    /\ pc' = "failed"
    /\ error' = reason
    /\ reported' = Append(reported, [run |-> run, error |-> reason])

\* main of src/index.ts up to the call of transferIssues: the input
\* 'issue_numbers' is parsed, and an empty set ends the run (lines 47-62).
Main ==
    /\ pc = "main"
    /\ issueNumbers' = ParseIssueNumbers(input)
    /\ IF issueNumbers' = <<>>
       THEN Failed("no-issue-numbers") /\ todo' = todo
       ELSE pc' = "start" /\ todo' = issueNumbers' /\ error' = error /\ reported' = reported
    /\ UNCHANGED <<impl, source, destination, input, srcPrivate, dstPrivate, sourceCaches,
                   remoteVars, cacheVars, localVars, run, issue, calls, results,
                   observations>>

\* Lines 24-50: both identifiers are verified and parsed before the loop.
TransferIssuesStart ==
    /\ pc = "start"
    /\ IF ~MatchesOwnerRepo(source)
       THEN Failed("parse-source")
       ELSE IF ~MatchesOwnerRepo(destination)
       THEN Failed("parse-destination")
       ELSE pc' = "loop" /\ error' = error /\ reported' = reported
    /\ UNCHANGED <<inputVars, remoteVars, cacheVars, localVars, run, todo, issue,
                   calls, results, observations>>

\* for (const issueNumber of issueNumbers): next number, or the end of the run.
LoopNext ==
    /\ pc = "loop"
    /\ pc' = IF todo = <<>> THEN "done" ELSE "getIssue"
    /\ UNCHANGED <<inputVars, remoteVars, cacheVars, localVars, run, error, todo,
                   issue, calls, results, observations, reported>>

\* Faulty variant of GetIssue: an issue that cannot be retrieved is passed
\* over and the loop goes on with the next number.
GetIssueSkippingMissing ==
    /\ pc = "getIssue"
    /\ LET n == Head(todo)
           src == ParseOwnerRepo(source)
       IN  /\ calls' = Append(calls, Call(pc, n, <<source, n>>, TRUE))
           /\ IF n \in DOMAIN srcIssues
              THEN /\ issue' = <<[number |-> n,
                                  title |-> srcIssues[n].title,
                                  labels |-> srcIssues[n].labels,
                                  body |-> srcIssues[n].body,
                                  assignee |-> srcIssues[n].assignee,
                                  assignees |-> srcIssues[n].assignees,
                                  repository_url |-> RepositoryUrl(src.owner, src.repo)]>>
                   /\ pc' = "transferIssue"
                   /\ todo' = todo
              ELSE /\ issue' = <<>>
                   /\ pc' = "loop"
                   /\ todo' = Tail(todo)
    /\ UNCHANGED <<inputVars, remoteVars, cacheVars, localVars, run, error,
                   results, reported, observations>>

\* Faulty variant of GetIssue: the number fetched is the last one of the set
\* that is still to do, not the next one.
GetIssueOutOfOrder ==
    /\ pc = "getIssue"
    /\ LET n == todo[Len(todo)]
           src == ParseOwnerRepo(source)
       IN  /\ calls' = Append(calls, Call(pc, n, <<source, n>>, TRUE))
           /\ IF n \in DOMAIN srcIssues
              THEN /\ issue' = <<[number |-> n,
                                  title |-> srcIssues[n].title,
                                  labels |-> srcIssues[n].labels,
                                  body |-> srcIssues[n].body,
                                  assignee |-> srcIssues[n].assignee,
                                  assignees |-> srcIssues[n].assignees,
                                  repository_url |-> RepositoryUrl(src.owner, src.repo)]>>
                   /\ pc' = "transferIssue"
                   /\ error' = error
                   /\ reported' = reported
              ELSE /\ issue' = <<>>
                   /\ Failed("not-found")
    /\ UNCHANGED <<inputVars, remoteVars, cacheVars, localVars, run, todo,
                   results, observations>>

\* sourceRepo.getIssue(issueNumber) settles; nothing retrieved is fatal.
GetIssue ==
    /\ pc = "getIssue"
    /\ LET n == Head(todo)
           src == ParseOwnerRepo(source)
       IN  /\ calls' = Append(calls, Call(pc, n, <<source, n>>, TRUE))
           /\ IF n \in DOMAIN srcIssues
              THEN /\ issue' = <<[number |-> n,
                                  title |-> srcIssues[n].title,
                                  labels |-> srcIssues[n].labels,
                                  body |-> srcIssues[n].body,
                                  assignee |-> srcIssues[n].assignee,
                                  assignees |-> srcIssues[n].assignees,
                                  repository_url |-> RepositoryUrl(src.owner, src.repo)]>>
                   /\ pc' = "transferIssue"
                   /\ error' = error
                   /\ reported' = reported
              ELSE /\ issue' = <<>>
                   /\ Failed("not-found")
    /\ UNCHANGED <<inputVars, remoteVars, cacheVars, localVars, run, todo,
                   results, observations>>

\* The line transferIssues logs for a result: `Transferred
\* ${source}#${issueNumber} to ${destination}#${destinationIssue?.number}`.
Observation(result) ==
    [run |-> run, source |-> source, issueNumber |-> Head(todo),
     destination |-> destination,
     number |-> IF result # <<>> THEN result[1].number ELSE "undefined"]

\* destinationRepo.transferIssue(sourceIssue) has returned 'result' (a
\* sequence holding the returned issue, or empty for undefined): lines 60-64.
\* dist/lib/transfer-issues.js (line 21) logs whatever was returned.
Returned(kind, result) ==
    /\ results' = Append(results, [run |-> run, issue |-> issue[1],
                                   kind |-> kind, returned |-> result])
    /\ observations' =
           IF result # <<>> \/ impl = "dist"
           THEN Append(observations, Observation(result))
           ELSE observations
    /\ todo' = Tail(todo)
    /\ pc' = "loop"


\* Locals of transferIssue after it has returned.
NoLocals ==
    /\ issue' = <<>>
    /\ origin' = <<>>
    /\ srcVisibility' = "undefined"
    /\ pageIndex' = 0
    /\ labels' = <<>>
    /\ li' = 0
    /\ labelResults' = <<>>
    /\ mode' = "none"
    /\ ids' = <<>>
    /\ transferredIssue' = <<>>

-----------------------------------------------------------------------------
(* Repository, src/index.ts and src/lib/repository.ts *)

\* transferIssue up to the first await: the origin is parsed from
\* issue.repository_url and the issue cache is populated only when it is empty.
TransferIssueBegin ==
    /\ pc = "transferIssue"
    /\ origin' = <<OriginOf(issue[1].repository_url)>>
    /\ IF issueCache = <<>>
       THEN pc' = "populateIssueCache" /\ pageIndex' = 1
       ELSE pc' = "findDuplicate" /\ pageIndex' = pageIndex
    /\ UNCHANGED <<inputVars, remoteVars, cacheVars, run, error, todo, issue,
                   srcVisibility, labels, li, labelResults, mode, ids, transferredIssue, calls,
                   results, observations, reported>>

\* Faulty variant of PopulateIssueCachePage: the cache is assigned the page just
\* received instead of being extended by it.
PopulateIssueCachePageOverwriting ==
    /\ pc = "populateIssueCache"
    /\ LET filter == IssueCacheFilter(FullName(origin[1]))
           additionalIssues == ListPage(IssuesLabelled(filter), pageIndex, perPage)
       IN  /\ calls' = Append(calls, Call(pc, issue[1].number,
                                          <<filter, pageIndex, perPage>>, TRUE))
           /\ pageIndex' = pageIndex + 1
           /\ IF additionalIssues = <<>>
              THEN pc' = "findDuplicate" /\ issueCache' = issueCache
              ELSE pc' = pc /\ issueCache' = additionalIssues
    /\ UNCHANGED <<inputVars, remoteVars, labelCache, visibility, run, error, todo,
                   issue, origin, srcVisibility, labels, li, labelResults, mode, ids,
                   transferredIssue, results, observations, reported>>

\* One iteration of the while loop of #populateIssueCache.
\* Faulty variant of PopulateIssueCachePage: the fetch stops after a page that is
\* not full instead of asking for the page after it.
PopulateIssueCacheUntilShortPage ==
    /\ pc = "populateIssueCache"
    /\ LET filter == IssueCacheFilter(FullName(origin[1]))
           additionalIssues == ListPage(IssuesLabelled(filter), pageIndex, perPage)
       IN  /\ calls' = Append(calls, Call(pc, issue[1].number,
                                          <<filter, pageIndex, perPage>>, TRUE))
           /\ pageIndex' = pageIndex + 1
           /\ issueCache' = issueCache \o additionalIssues
           /\ pc' = IF Len(additionalIssues) < perPage THEN "findDuplicate" ELSE pc
    /\ UNCHANGED <<inputVars, remoteVars, labelCache, visibility, run, error, todo,
                   issue, origin, srcVisibility, labels, li, labelResults, mode, ids,
                   transferredIssue, results, observations, reported>>

PopulateIssueCachePage ==
    /\ pc = "populateIssueCache"
    /\ LET filter == IssueCacheFilter(FullName(origin[1]))
           additionalIssues == ListPage(IssuesLabelled(filter), pageIndex, perPage)
       IN  /\ calls' = Append(calls, Call(pc, issue[1].number,
                                          <<filter, pageIndex, perPage>>, TRUE))
           /\ pageIndex' = pageIndex + 1
           /\ IF additionalIssues = <<>>
              THEN pc' = "findDuplicate" /\ issueCache' = issueCache
              ELSE pc' = pc /\ issueCache' = issueCache \o additionalIssues
    /\ UNCHANGED <<inputVars, remoteVars, labelCache, visibility, run, error, todo,
                   issue, origin, srcVisibility, labels, li, labelResults, mode, ids,
                   transferredIssue, results, observations, reported>>

HasDuplicateIssue(cache, title) == \E k \in DOMAIN cache : cache[k].title = title

\* Faulty variant of FindDuplicate: a duplicate title is an error that ends
\* the run.
FindDuplicateAborting ==
    /\ pc = "findDuplicate"
    /\ IF HasDuplicateIssue(issueCache, issue[1].title)
       THEN /\ Failed("duplicate")
            /\ UNCHANGED <<todo, issue, localVars, results, observations>>
       ELSE /\ labels' = PreparedLabels(issue[1].labels, FullName(origin[1]))
            /\ li' = 1
            /\ labelResults' = <<>>
            /\ pc' = "createLabel"
            /\ UNCHANGED <<todo, issue, origin, srcVisibility, pageIndex, mode, ids,
                           transferredIssue, results, observations, error, reported>>
    /\ UNCHANGED <<inputVars, remoteVars, cacheVars, run, calls>>

\* Lines 265-289 of src/index.ts: a duplicate title ends the call with
\* undefined; otherwise the label list is prepared.
FindDuplicate ==
    /\ pc = "findDuplicate"
    /\ IF HasDuplicateIssue(issueCache, issue[1].title)
       THEN /\ Returned("skipped", <<>>)
            /\ NoLocals
       ELSE /\ labels' = PreparedLabels(issue[1].labels, FullName(origin[1]))
            /\ li' = 1
            /\ labelResults' = <<>>
            /\ pc' = "createLabel"
            /\ UNCHANGED <<todo, issue, origin, srcVisibility, pageIndex, mode, ids,
                           transferredIssue, results, observations>>
    /\ UNCHANGED <<inputVars, remoteVars, cacheVars, run, error, calls, reported>>

\* #createLabel up to its first await: the label cache is populated only when
\* it is empty.
\* Faulty variant of CreateLabelBegin: the label cache is searched without ever being
\* populated from the destination's listing.
CreateLabelBeginWithoutListing ==
    /\ pc = "createLabel"
    /\ pc' = "findLabel"
    /\ pageIndex' = pageIndex
    /\ UNCHANGED <<inputVars, remoteVars, cacheVars, run, error, todo, issue, origin,
                   srcVisibility, labels, li, labelResults, mode, ids, transferredIssue, calls,
                   results, observations, reported>>

CreateLabelBegin ==
    /\ pc = "createLabel"
    /\ IF labelCache = <<>>
       THEN pc' = "populateLabelCache" /\ pageIndex' = 1
       ELSE pc' = "findLabel" /\ pageIndex' = pageIndex
    /\ UNCHANGED <<inputVars, remoteVars, cacheVars, run, error, todo, issue, origin,
                   srcVisibility, labels, li, labelResults, mode, ids, transferredIssue, calls,
                   results, observations, reported>>

\* One iteration of the while loop of #populateLabelCache.
PopulateLabelCachePage ==
    /\ pc = "populateLabelCache"
    /\ LET additionalLabels == ListPage(dstLabels, pageIndex, perPage)
       IN  /\ calls' = Append(calls, Call(pc, issue[1].number,
                                          <<pageIndex, perPage>>, TRUE))
           /\ pageIndex' = pageIndex + 1
           /\ IF additionalLabels = <<>>
              THEN pc' = "findLabel" /\ labelCache' = labelCache
              ELSE pc' = pc /\ labelCache' = labelCache \o additionalLabels
    /\ UNCHANGED <<inputVars, remoteVars, issueCache, visibility, run, error, todo,
                   issue, origin, srcVisibility, labels, li, labelResults, mode, ids,
                   transferredIssue, results, observations, reported>>

\* After #createLabel has returned for labels[li]: the next label, or the
\* step that follows the label loop.
LabelDone ==
    IF li < Len(labels)
    THEN li' = li + 1 /\ pc' = "createLabel" /\ mode' = mode
    ELSE /\ li' = li
         /\ IF impl = "index"
            THEN pc' = "populateSourceVisibility" /\ mode' = mode
            ELSE pc' = "createIssue" /\ mode' = "copy"

HasLabel(cache, name) == \E k \in DOMAIN cache : cache[k] = name

\* What one call of #createLabel did: whether it found the label in the
\* cache, and what it returned (<<>> for undefined).
LabelResult(name, found, returned) ==
    [name |-> name, found |-> found, returned |-> returned]

\* this.#labelCache.find(({ name }) => name === label.name), and the early
\* return, which returns nothing.
FindLabel ==
    /\ pc = "findLabel"
    /\ IF HasLabel(labelCache, labels[li].name)
       THEN /\ LabelDone
            /\ labelResults' = Append(labelResults, LabelResult(labels[li].name, TRUE, <<>>))
       ELSE /\ pc' = "createLabelCall" /\ li' = li /\ mode' = mode
            /\ labelResults' = labelResults
    /\ UNCHANGED <<inputVars, remoteVars, cacheVars, run, error, todo, issue, origin,
                   srcVisibility, pageIndex, labels, ids, transferredIssue, calls,
                   results, observations, reported>>

\* issues.createLabel settles; the new label is appended to the cache
\* (dist/lib/repository.js leaves the cache as it is).  The remote creates a
\* label only under a name the repository does not have yet; a request for
\* an existing name can only fail.
\* Faulty variant of CreateLabelCall: the created label is not added to the cache.
CreateLabelCallWithoutCaching ==
    /\ pc = "createLabelCall"
    /\ labels[li].name \notin Range(dstLabels)
    /\ calls' = Append(calls, Call(pc, issue[1].number, <<labels[li].name>>, TRUE))
    /\ dstLabels' = Append(dstLabels, labels[li].name)
    /\ labelCache' = labelCache
    /\ labelResults' = Append(labelResults, LabelResult(labels[li].name, FALSE, <<>>))
    /\ LabelDone
    /\ UNCHANGED <<inputVars, srcIssues, dstIssues, issueCache, visibility, run,
                   error, todo, issue, origin, srcVisibility, pageIndex, labels,
                   ids, transferredIssue, results, observations, reported>>

CreateLabelCall ==
    /\ pc = "createLabelCall"
    /\ labels[li].name \notin Range(dstLabels)
    /\ calls' = Append(calls, Call(pc, issue[1].number, <<labels[li].name>>, TRUE))
    /\ dstLabels' = Append(dstLabels, labels[li].name)
    /\ labelCache' = IF impl = "dist" THEN labelCache
                     ELSE labelCache \o <<labels[li].name>>
    /\ labelResults' = Append(labelResults,
                              LabelResult(labels[li].name, FALSE,
                                          IF impl = "dist" THEN <<>>
                                          ELSE <<labels[li].name>>))
    /\ LabelDone
    /\ UNCHANGED <<inputVars, srcIssues, dstIssues, issueCache, visibility, run,
                   error, todo, issue, origin, srcVisibility, pageIndex, labels,
                   ids, transferredIssue, results, observations, reported>>

-----------------------------------------------------------------------------
(* Transfer mode, src/index.ts lines 291-302 *)

\* Faulty variant of VisibilityOf: a repository counts as private only when the flag is
\* true, so that a missing flag makes it public.
VisibilityOfTruthy(private) == IF private = Flag(TRUE) THEN "Private" ELSE "Public"

\* data.private === false ? Visibility.Public : Visibility.Private
VisibilityOf(private) == IF private = Flag(FALSE) THEN "Public" ELSE "Private"

canTransferBetweenOrgs(sourceOwner, thisOwner) ==
    toLowerCase(sourceOwner) = toLowerCase(thisOwner)

canTransferBetweenVisibilities(sourceVisibility, thisVisibility) ==
    \/ sourceVisibility = "Public"
    \/ (sourceVisibility = "Private" /\ thisVisibility = "Private")

\* if (canTransferBetweenOrgs && canTransferBetweenVisibilities)
TransferAllowed(sourceOwner, thisOwner, sourceVisibility, thisVisibility) ==
    /\ canTransferBetweenOrgs(sourceOwner, thisOwner)
    /\ canTransferBetweenVisibilities(sourceVisibility, thisVisibility)

\* The branch taken once both visibilities are known.
Decide(sourceVisibility, thisVisibility) ==
    IF TransferAllowed(origin[1].owner, ParseOwnerRepo(destination).owner,
                       sourceVisibility, thisVisibility)
    THEN mode' = "native" /\ pc' = "getSourceIssueId"
    ELSE mode' = "copy" /\ pc' = "createIssue"

\* source.#populateVisibility() settles (line 295).
PopulateSourceVisibility ==
    /\ pc = "populateSourceVisibility"
    /\ calls' = Append(calls, Call(pc, issue[1].number, <<FullName(origin[1])>>, TRUE))
    /\ srcVisibility' = VisibilityOf(srcPrivate)
    /\ IF visibility = "undefined"
       THEN pc' = "populateVisibility" /\ mode' = mode
       ELSE Decide(srcVisibility', visibility)
    /\ UNCHANGED <<inputVars, remoteVars, cacheVars, run, error, todo, issue, origin,
                   pageIndex, labels, li, labelResults, ids, transferredIssue, results,
                   observations, reported>>

\* this.#populateVisibility() settles (lines 296-298).
PopulateVisibility ==
    /\ pc = "populateVisibility"
    /\ calls' = Append(calls, Call(pc, issue[1].number, <<destination>>, TRUE))
    /\ visibility' = VisibilityOf(dstPrivate)
    /\ Decide(srcVisibility, visibility')
    /\ UNCHANGED <<inputVars, remoteVars, issueCache, labelCache, run, error, todo,
                   issue, origin, srcVisibility, pageIndex, labels, li, labelResults, ids,
                   transferredIssue, results, observations, reported>>

-----------------------------------------------------------------------------
(* Native transfer, src/index.ts lines 303-346 *)

\* The query for the source issue's id settles.
GetSourceIssueId ==
    /\ pc = "getSourceIssueId"
    /\ calls' = Append(calls, Call(pc, issue[1].number,
                                   <<FullName(origin[1]), issue[1].number>>, TRUE))
    /\ ids' = <<[repository |-> FullName(origin[1]), number |-> issue[1].number]>>
    /\ pc' = "getDestinationRepoId"
    /\ UNCHANGED <<inputVars, remoteVars, cacheVars, run, error, todo, issue, origin,
                   srcVisibility, pageIndex, labels, li, labelResults, mode, transferredIssue,
                   results, observations, reported>>

\* The query for the destination repository's id settles.
GetDestinationRepoId ==
    /\ pc = "getDestinationRepoId"
    /\ calls' = Append(calls, Call(pc, issue[1].number, <<destination>>, TRUE))
    /\ ids' = Append(ids, [repository |-> destination, number |-> 0])
    /\ pc' = "transferIssueMutation"
    /\ UNCHANGED <<inputVars, remoteVars, cacheVars, run, error, todo, issue, origin,
                   srcVisibility, pageIndex, labels, li, labelResults, mode, transferredIssue,
                   results, observations, reported>>

\* An issue of the destination as the remote holds it.  'via', 'from' and
\* 'run' record how it came to be there.
DestinationIssue(number, title, names, via, from, r) ==
    [number |-> number, title |-> title, labels |-> names,
     via |-> via, from |-> from, run |-> r]

\* The transferIssue mutation settles: the remote moves the issue, without
\* its labels, to the repository ids[2] names.
TransferIssueMutation ==
    /\ pc = "transferIssueMutation"
    /\ LET n == ids[1].number
           moved == DestinationIssue(Len(dstIssues) + 1, srcIssues[n].title, {},
                                     "native", n, run)
       IN  /\ calls' = Append(calls, Call(pc, issue[1].number, ids, TRUE))
           /\ srcIssues' = [m \in DOMAIN srcIssues \ {n} |-> srcIssues[m]]
           /\ dstIssues' = Append(dstIssues, moved)
           /\ transferredIssue' = <<moved>>
    /\ pc' = "addLabels"
    /\ UNCHANGED <<inputVars, dstLabels, cacheVars, run, error, todo, issue, origin,
                   srcVisibility, pageIndex, labels, li, labelResults, mode, ids, results,
                   observations, reported>>

\* Faulty variant of AddLabels: the marker label is not among the names sent.
AddLabelsWithoutMarker ==
    /\ pc = "addLabels"
    /\ LET number == transferredIssue[1].number
           names == Tail(NamesOf(labels))
           relabelled == [dstIssues[number] EXCEPT !.labels = @ \cup Range(names)]
       IN  /\ calls' = Append(calls, Call(pc, issue[1].number, <<number, names>>, TRUE))
           /\ dstIssues' = [dstIssues EXCEPT ![number] = relabelled]
           /\ Returned("transferred", <<relabelled>>)
    /\ NoLocals
    /\ UNCHANGED <<inputVars, srcIssues, dstLabels, cacheVars, run, error, reported>>

\* issues.addLabels settles; its result replaces transferredIssue.labels and
\* the issue is returned.
AddLabels ==
    /\ pc = "addLabels"
    /\ LET number == transferredIssue[1].number
           names == NamesOf(labels)
           relabelled == [dstIssues[number] EXCEPT !.labels = @ \cup Range(names)]
       IN  /\ calls' = Append(calls, Call(pc, issue[1].number, <<number, names>>, TRUE))
           /\ dstIssues' = [dstIssues EXCEPT ![number] = relabelled]
           /\ Returned("transferred", <<relabelled>>)
    /\ NoLocals
    /\ UNCHANGED <<inputVars, srcIssues, dstLabels, cacheVars, run, error, reported>>

-----------------------------------------------------------------------------
(* Copy, src/index.ts lines 347-367 and src/lib/repository.ts lines 166-185 *)

\* body: issue.body || "".
RequestBody(i) == IF i.body = <<>> \/ i.body = <<"">> THEN "" ELSE i.body[1]

\* issue.assignee?.login: empty for undefined.
AssigneeLogin(i) == IF i.assignee = <<>> THEN <<>> ELSE i.assignee[1].login

\* assignee: !issue.assignees ? issue.assignee?.login : undefined; in
\* dist/lib/repository.js (line 130) issue.assignee?.login whatever the list.
RequestAssignee(i) ==
    IF impl = "dist" \/ i.assignees = <<>> THEN AssigneeLogin(i) ELSE <<>>

\* The reduce over issue.assignees: 'acc' starts undefined (empty) and
\* becomes (acc || []).concat(login) at every user that has a login.
RECURSIVE ReduceLogins(_, _)
ReduceLogins(users, acc) ==
    IF users = <<>> THEN acc
    ELSE LET login == Head(users).login
         IN  ReduceLogins(Tail(users),
                 IF login = <<>> \/ login = <<"">> THEN acc
                 ELSE << (IF acc = <<>> THEN <<>> ELSE acc[1]) \o login >>)

\* assignees: issue.assignees?.reduce(..., undefined).
RequestAssignees(i) ==
    IF i.assignees = <<>> THEN <<>> ELSE ReduceLogins(i.assignees[1], <<>>)

\* The parameters of issues.create: title, labels, body, assignee, assignees.
CreateRequest(i, ls) ==
    <<i.title, ls, RequestBody(i), RequestAssignee(i), RequestAssignees(i)>>

\* Faulty variant of CreateIssue: the request carries the marker alone, as if the
\* labels of the source issue were not passed on.
CreateIssueWithoutLabels ==
    /\ pc = "createIssue"
    /\ LET created == DestinationIssue(Len(dstIssues) + 1, issue[1].title,
                                       {MarkerEntry(labels).name}, "copy",
                                       issue[1].number, run)
       IN  /\ calls' = Append(calls, Call(pc, issue[1].number,
                                          CreateRequest(issue[1], <<MarkerEntry(labels)>>), TRUE))
           /\ dstIssues' = Append(dstIssues, created)
           /\ Returned("copied", <<created>>)
    /\ NoLocals
    /\ UNCHANGED <<inputVars, srcIssues, dstLabels, cacheVars, run, error, reported>>

\* Faulty variant of CreateIssue: the copy takes the issue away from the source, as
\* the native transfer does.
CreateIssueMovingTheSource ==
    /\ pc = "createIssue"
    /\ LET created == DestinationIssue(Len(dstIssues) + 1, issue[1].title,
                                       Range(NamesOf(labels)), "copy",
                                       issue[1].number, run)
           n == issue[1].number
       IN  /\ calls' = Append(calls, Call(pc, issue[1].number,
                                          CreateRequest(issue[1], labels), TRUE))
           /\ dstIssues' = Append(dstIssues, created)
           /\ srcIssues' = [m \in DOMAIN srcIssues \ {n} |-> srcIssues[m]]
           /\ Returned("copied", <<created>>)
    /\ NoLocals
    /\ UNCHANGED <<inputVars, dstLabels, cacheVars, run, error, reported>>

\* issues.create settles and the new issue is returned.
CreateIssue ==
    /\ pc = "createIssue"
    /\ LET created == DestinationIssue(Len(dstIssues) + 1, issue[1].title,
                                       Range(NamesOf(labels)), "copy",
                                       issue[1].number, run)
       IN  /\ calls' = Append(calls, Call(pc, issue[1].number,
                                          CreateRequest(issue[1], labels), TRUE))
           /\ dstIssues' = Append(dstIssues, created)
           /\ Returned("copied", <<created>>)
    /\ NoLocals
    /\ UNCHANGED <<inputVars, srcIssues, dstLabels, cacheVars, run, error, reported>>

-----------------------------------------------------------------------------
(* Failure and re-run *)

\* Faulty variant of RemoteCallFails: the error is swallowed inside the loop, which
\* goes on with the next issue number.
RemoteCallFailsSwallowed ==
    /\ pc \in RemotePositions
    /\ calls' = Append(calls, Call(pc, Head(todo), <<>>, FALSE))
    /\ pc' = "loop"
    /\ todo' = Tail(todo)
    /\ UNCHANGED <<inputVars, remoteVars, cacheVars, localVars, run, error, issue,
                   results, observations, reported>>

\* The remote call the run is waiting for fails; nothing catches the error
\* before the top-level handler of src/index.ts (lines 75-81).
RemoteCallFails ==
    /\ pc \in RemotePositions
    /\ calls' = Append(calls, Call(pc, Head(todo), <<>>, FALSE))
    /\ Failed("remote")
    /\ UNCHANGED <<inputVars, remoteVars, cacheVars, localVars, run, todo, issue,
                   results, observations>>

\* The action is run again with the same inputs: new Repository Models, the
\* remote as the previous run left it.
Rerun ==
    /\ pc \in {"done", "failed"}
    /\ run < MaxRuns
    /\ UNCHANGED <<inputVars, remoteVars, results, reported, observations>>
    /\ run' = run + 1
    /\ pc' = "main"
    /\ error' = "none"
    /\ todo' = <<>>
    /\ issueCache' = <<>>
    /\ labelCache' = <<>>
    /\ visibility' = "undefined"
    /\ calls' = <<>>
    /\ NoLocals

Next ==
    \/ Main
    \/ TransferIssuesStart
    \/ LoopNext
    \/ GetIssue
    \/ TransferIssueBegin
    \/ PopulateIssueCachePage
    \/ FindDuplicate
    \/ CreateLabelBegin
    \/ PopulateLabelCachePage
    \/ FindLabel
    \/ CreateLabelCall
    \/ PopulateSourceVisibility
    \/ PopulateVisibility
    \/ GetSourceIssueId
    \/ GetDestinationRepoId
    \/ TransferIssueMutation
    \/ AddLabels
    \/ CreateIssue
    \/ RemoteCallFails
    \/ Rerun


-----------------------------------------------------------------------------
(* Inputs *)

Implementations == {"lib", "index", "dist"}

\* <<source, destination>>: same owner, owners differing in letter case only,
\* different owners.
WellFormedPairs ==
    { <<"org1/repoA", "org1/repoB">>,
      <<"Org1/repoA", "org1/repoB">>,
      <<"orgX/repo1", "orgY/repo2">> }

MalformedPairs ==
    { <<"org1", "org1/repoB">>,
      <<"org1/repoA/x", "org1/repoB">>,
      <<"/repoA", "org1/repoB">>,
      <<"org1/repoA", "org1/">>,
      <<"org1/repoA", "repoB">>,
      <<"org1/", "/repoB">> }

\* An issue of the source as issues.get returns it.  A field that can be
\* null or absent is a sequence, empty when the value is missing: 'body'
\* holds the text, 'assignee' the user, 'assignees' the list of users, and
\* the 'login' of a user the name.
SourceIssue(title, ls, body, assignee, assignees) ==
    [title |-> title, labels |-> ls, body |-> body, assignee |-> assignee,
     assignees |-> assignees]

User(login) == [login |-> <<login>>]

UserWithoutLogin == [login |-> <<>>]

\* An issue with no body, no assignee and no list of assignees.
PlainIssue(title, ls) == SourceIssue(title, ls, <<>>, <<>>, <<>>)

\* Orders in which the input set can be iterated; the source holds no issue 3.
IssueNumberOrders == { <<1>>, <<1, 2>>, <<2, 1>>, <<3>>, <<1, 3, 2>> }

\* Label lists of issue 1 of the source: bare strings, objects, a marker left
\* by an earlier transfer, and a label with the very name of the marker.
LabelLists(s) ==
    { <<>>,
      <<ObjectLabel("bug"), StringLabel("docs")>>,
      <<ObjectLabel(MarkerPrefix \o "old/repo"), StringLabel("bug")>>,
      <<StringLabel(MarkerName(s))>> }

SourceIssues(s) ==
    { (1 :> PlainIssue("Bug X", l1)) @@
      (2 :> PlainIssue(t2, <<StringLabel("bug")>>)) :
        l1 \in LabelLists(s), t2 \in {"Bug X", "Bug Y"} }

\* <<issues, labels>> of the destination before the first run.
DestinationStates(s) ==
    { << <<>>, <<>> >>,
      << <<>>, <<"bug">> >>,
      << <<DestinationIssue(1, "Old", {MarkerName(s)}, "before", 0, 0)>>,
         <<MarkerName(s)>> >>,
      << <<DestinationIssue(1, "Bug X", {"bug", MarkerName(s)}, "before", 0, 0)>>,
         <<"bug", MarkerName(s)>> >> }

\* Runs of the class of src/index.ts: every pair of visibilities.
IndexScenarios ==
    \E p \in WellFormedPairs, nums \in IssueNumberOrders, sp \in BOOLEAN, dp \in BOOLEAN :
        \E sIssues \in SourceIssues(p[1]), d \in DestinationStates(p[1]) :
            Scenario("index", p[1], p[2], nums, sIssues, sp, dp, d[1], d[2])

\* Runs of src/lib/repository.ts, which never asks for a visibility.
LibScenarios ==
    \E p \in WellFormedPairs, nums \in IssueNumberOrders, sp \in BOOLEAN :
        \E sIssues \in SourceIssues(p[1]), d \in DestinationStates(p[1]) :
            Scenario("lib", p[1], p[2], nums, sIssues, sp, FALSE, d[1], d[2])

\* Runs of dist/lib/repository.js under dist/lib/transfer-issues.js.
DistScenarios ==
    \E p \in WellFormedPairs, nums \in IssueNumberOrders :
        \E sIssues \in SourceIssues(p[1]), d \in DestinationStates(p[1]) :
            Scenario("dist", p[1], p[2], nums, sIssues, FALSE, FALSE, d[1], d[2])

\* Runs given an identifier that is not of the shape owner/repo.
MalformedScenarios ==
    \E i \in Implementations, p \in MalformedPairs, nums \in {<<1>>, <<1, 2>>} :
        \E sIssues \in SourceIssues(p[1]), d \in DestinationStates(p[1]) :
            /\ sIssues[1].labels = <<>>
            /\ Scenario(i, p[1], p[2], nums, sIssues, FALSE, FALSE, d[1], d[2])

Init == IndexScenarios \/ LibScenarios \/ DistScenarios \/ MalformedScenarios

Spec == Init /\ [][Next]_vars

-----------------------------------------------------------------------------
(* Identifiers of every length around the marker label's limit *)

RECURSIVE Repeat(_, _)
Repeat(c, k) == IF k = 0 THEN "" ELSE c \o Repeat(c, k - 1)

LongSources == {"org1/" \o Repeat("r", k) : k \in 1..MaxRepoLength}

OneIssue == (1 :> PlainIssue("Bug X", <<StringLabel("bug")>>))

IdentifierScenarios ==
    \E i \in Implementations, s \in LongSources, sp \in BOOLEAN :
        \E d \in DestinationStates(s) :
            Scenario(i, s, "org1/repoB", <<1>>, OneIssue, sp, FALSE, d[1], d[2])

SpecIdentifiers == IdentifierScenarios /\ [][Next]_vars

-----------------------------------------------------------------------------
(* Listings of the destination that fill several pages *)

ListingLengths ==
    {0, 1, perPage - 1, perPage, perPage + 1, MaxPages * perPage, MaxPages * perPage + 1}

\* n issues of the destination carrying the marker of source s.
ManyIssues(s, n) ==
    [k \in 1..n |-> DestinationIssue(k, "Old " \o ToString(k), {MarkerName(s)},
                                     "before", 0, 0)]

\* n labels of the destination, the marker of source s first.
ManyLabels(s, n) ==
    [k \in 1..n |-> IF k = 1 THEN MarkerName(s) ELSE "label " \o ToString(k)]

PageScenarios ==
    \E i \in Implementations, nums \in {<<1>>, <<1, 2>>},
       ni \in ListingLengths, nl \in ListingLengths :
        /\ ni > 0 => nl > 0
        /\ \E sIssues \in SourceIssues("org1/repoA") :
            /\ sIssues[1].labels = <<ObjectLabel("bug"), StringLabel("docs")>>
            /\ Scenario(i, "org1/repoA", "org1/repoB", nums, sIssues, FALSE, FALSE,
                        ManyIssues("org1/repoA", ni), ManyLabels("org1/repoA", nl))

SpecPages == PageScenarios /\ [][Next]_vars

\* One issue sent to a destination whose listings fill several pages.
FetchScenarios ==
    \E i \in Implementations, ni \in ListingLengths, nl \in ListingLengths :
        /\ ni > 0 => nl > 0
        /\ Scenario(i, "org1/repoA", "org1/repoB", <<1>>, OneIssue, FALSE, FALSE,
                    ManyIssues("org1/repoA", ni), ManyLabels("org1/repoA", nl))

\* Every await of the run settles, fulfilled or rejected, and the code after
\* it runs: a run that can take a step takes one.
SpecPagesFair == FetchScenarios /\ [][Next]_vars /\ WF_vars(Next)

-----------------------------------------------------------------------------
(* Inputs 'issue_numbers' of every shape *)

InputAlphabet == {"1", "2", "a", " ", "\t"}

RECURSIVE StringsOfLength(_)
StringsOfLength(n) ==
    IF n = 0 THEN {""}
    ELSE {c \o s : c \in InputAlphabet, s \in StringsOfLength(n - 1)}

\* Every string of the alphabet up to the bound, an input with a
\* non-numeric token and a repeated number, and one with two spaces in a row.
InputStrings ==
    UNION {StringsOfLength(n) : n \in 0..MaxInputLength} \cup {"1 abc 2 2", "1  2"}

\* The action started on an input string, between repositories of one owner.
FrontEndScenarios ==
    \E i \in Implementations, in \in InputStrings :
        ScenarioOnInput(i, "org1/repoA", "org1/repoB", in, OneIssue @@
                        (2 :> PlainIssue("Bug Y", <<>>)),
                        Flag(FALSE), Flag(FALSE), <<>>, <<>>)

SpecFrontEnd == FrontEndScenarios /\ [][Next]_vars

-----------------------------------------------------------------------------
(* Issues with and without a body, an assignee and a list of assignees *)

Bodies == {<<>>, <<"">>, <<"Steps">>}

PrimaryAssignees == {<<>>, <<User("alice")>>}

\* No list, an empty list, lists of users, and lists with a user that has
\* no login.
AssigneeLists ==
    { <<>>,
      << <<>> >>,
      << <<User("alice")>> >>,
      << <<User("bob"), User("alice")>> >>,
      << <<UserWithoutLogin>> >>,
      << <<UserWithoutLogin, User("bob")>> >> }

\* Issue 1 of every shape, sent to a repository of the same owner and to one
\* of another owner.
CopyScenarios ==
    \E i \in Implementations, d \in {"org1/repoB", "org2/repoB"},
       body \in Bodies, assignee \in PrimaryAssignees, assignees \in AssigneeLists :
        Scenario(i, "org1/repoA", d, <<1, 2>>,
                 (1 :> SourceIssue("Bug X", <<ObjectLabel("bug")>>, body, assignee,
                                   assignees)) @@
                 (2 :> PlainIssue("Bug Y", <<>>)),
                 FALSE, FALSE, <<>>, <<>>)

SpecCopy == CopyScenarios /\ [][Next]_vars

-----------------------------------------------------------------------------
(* Repositories whose 'private' flag is true, false or missing *)

PrivateFlags == {Flag(TRUE), Flag(FALSE), NoFlag}

VisibilityScenarios ==
    \E i \in Implementations, d \in {"org1/repoB", "org2/repoB"},
       sp \in PrivateFlags, dp \in PrivateFlags :
        ScenarioOnInput(i, "org1/repoA", d, "1 2",
                        OneIssue @@ (2 :> PlainIssue("Bug Y", <<>>)),
                        sp, dp, <<>>, <<>>)

SpecVisibility == VisibilityScenarios /\ [][Next]_vars

-----------------------------------------------------------------------------
(* Vocabulary of the properties *)

Last(seq) == seq[Len(seq)]

LastCallIs(position) ==
    calls # <<>> /\ Last(calls).op = position /\ Last(calls).ok

\* "exactly one '/', both segments non-empty"
HasOwnerRepoShape(s) ==
    \E i \in 1..Len(s) :
        /\ CharAt(s, i) = "/"
        /\ i # 1 /\ i # Len(s)
        /\ \A j \in 1..Len(s) : j # i => CharAt(s, j) # "/"

IsPrefixOf(p, s) ==
    /\ Len(p) <= Len(s)
    /\ \A k \in 1..Len(p) : CharAt(p, k) = CharAt(s, k)

\* A marker label: a label whose name begins with 'transferred-from: '.
IsMarkerName(name) == IsPrefixOf("transferred-from: ", name)

\* How often x occurs in the sequence names.
Occurrences(names, x) == Cardinality({k \in DOMAIN names : names[k] = x})

-----------------------------------------------------------------------------
(* C7: for every source identifier 'owner/repo' the generated marker label  *)
(* name is the first 50 characters of 'transferred-from: ' followed by the  *)
(* identifier: exactly 50 characters and a prefix of the untruncated string *)
(* when the identifier is longer than 32 characters, the untruncated string *)
(* otherwise.  Checked under SpecIdentifiers.                               *)
C7_MarkerTruncation ==
    labels # <<>> =>
        LET whole == "transferred-from: " \o source
            name == MarkerEntry(labels).name
        IN  /\ Len(source) > 32 => Len(name) = 50 /\ IsPrefixOf(name, whole)
            /\ Len(source) <= 32 => name = whole

\* A marker has been generated for an identifier of more than 32 characters.
C7_Witness == labels # <<>> /\ Len(source) > 32 /\ pc = "createLabelCall"

-----------------------------------------------------------------------------
(* C9: when the source or the destination identifier does not have the      *)
(* shape 'owner/repo', transferIssues fails with a parse error and no       *)
(* remote call has been made at the moment it fails, also when only the     *)
(* destination is malformed.                                                *)
C9_ParseErrorBeforeAnyCall ==
    pc \notin {"main", "start"} =>
        IF HasOwnerRepoShape(source) /\ HasOwnerRepoShape(destination)
        THEN error \notin {"parse-source", "parse-destination"}
        ELSE /\ pc = "failed"
             /\ error = IF HasOwnerRepoShape(source) THEN "parse-destination"
                        ELSE "parse-source"
             /\ calls = <<>>
             /\ Last(reported) = [run |-> run, error |-> error]

\* The run has failed on a malformed destination, the source being well-formed.
C9_Witness ==
    pc = "failed" /\ error = "parse-destination" /\ HasOwnerRepoShape(source)

-----------------------------------------------------------------------------
(* C10: when get-issue on the source yields nothing for an issue number,    *)
(* the run fails at that issue: no remote call is made for that issue       *)
(* against the destination, no later issue number of the batch is fetched   *)
(* or transferred, and the destination issues created for earlier issue     *)
(* numbers stay as they are.                                                *)
C10_NotFoundStopsTheRun ==
    /\ (LastCallIs("getIssue") /\ Last(calls).issue \notin DOMAIN srcIssues) =>
           (pc = "failed" /\ error = "not-found")
    /\ error = "not-found" =>
           /\ pc = "failed"
           /\ LastCallIs("getIssue")
           /\ Last(calls).issue = Head(todo)
           /\ Head(todo) \notin DOMAIN srcIssues
           /\ \A k \in 1..(Len(calls) - 1) :
                  calls[k].issue \notin Range(todo)
           /\ \A k \in DOMAIN results :
                  (results[k].run = run /\ results[k].returned # <<>>) =>
                      LET d == results[k].returned[1]
                      IN  d.number \in DOMAIN dstIssues /\ dstIssues[d.number] = d

\* The run has failed on a missing issue after an earlier issue was
\* transferred and before a later one was reached.
C10_Witness ==
    /\ error = "not-found"
    /\ Len(todo) > 1
    /\ \E k \in DOMAIN results : results[k].run = run /\ results[k].returned # <<>>


-----------------------------------------------------------------------------
(* C8 *)

\* Pages 1..n of a listing, one after the other.
RECURSIVE PagesUpTo(_, _)
PagesUpTo(listing, n) ==
    IF n = 0 THEN <<>>
    ELSE PagesUpTo(listing, n - 1) \o ListPage(listing, n, 100)

\* Number of non-empty pages of a listing.
NonEmptyPages(listing) == (Len(listing) + 99) \div 100

\* Sum of the lengths of pages 1..n of a listing.
RECURSIVE PageLengths(_, _)
PageLengths(listing, n) ==
    IF n = 0 THEN 0
    ELSE PageLengths(listing, n - 1) + Len(ListPage(listing, n, 100))

\* The listing the issue cache is being populated from.
MarkedListing == IssuesLabelled(IssueCacheFilter(source))

(* C8: when a label listing or an issue listing is served as N non-empty    *)
(* pages of at most 100 items followed by an empty page, populating the     *)
(* cache leaves it equal to the concatenation of pages 1..N in page order,  *)
(* with a length equal to the sum of the page lengths; when the first page  *)
(* is empty the cache stays empty.  Checked under SpecPages.                *)
C8_PaginationCompleteness ==
    /\ pc = "populateIssueCache" =>
           issueCache = PagesUpTo(MarkedListing, pageIndex - 1)
    /\ (pc = "findDuplicate" /\ LastCallIs("populateIssueCache")) =>
           /\ issueCache = PagesUpTo(MarkedListing, NonEmptyPages(MarkedListing))
           /\ Len(issueCache) = PageLengths(MarkedListing, NonEmptyPages(MarkedListing))
           /\ Len(issueCache) = Len(MarkedListing)
           /\ ListPage(MarkedListing, 1, 100) = <<>> => issueCache = <<>>
    /\ pc = "populateLabelCache" =>
           labelCache = PagesUpTo(dstLabels, pageIndex - 1)
    /\ (pc = "findLabel" /\ LastCallIs("populateLabelCache")) =>
           /\ labelCache = PagesUpTo(dstLabels, NonEmptyPages(dstLabels))
           /\ Len(labelCache) = PageLengths(dstLabels, NonEmptyPages(dstLabels))
           /\ Len(labelCache) = Len(dstLabels)
           /\ ListPage(dstLabels, 1, 100) = <<>> => labelCache = <<>>

\* The issue cache has just been populated from a listing of more than two
\* pages, the last of them not full.
C8_Witness ==
    /\ pc = "findDuplicate"
    /\ LastCallIs("populateIssueCache")
    /\ Len(issueCache) > MaxPages * 100
    /\ Last(calls).arg[2] = MaxPages + 2


-----------------------------------------------------------------------------
(* C5 *)

\* Label names of a create-issue or add-labels request.
RequestedNames(call) ==
    IF call.op = "createIssue" THEN NamesOf(call.arg[2]) ELSE call.arg[2]

\* The entry 'results' holds for the issue a call of the current run was made for.
ResultFor(call) ==
    CHOOSE e \in Range(results) : e.run = run /\ e.issue.number = call.issue

(* C5: for every source issue and every label on it, whether the label      *)
(* arrives as a bare name string or as a structured object, the label list  *)
(* sent to the destination (create-issue on the copy path, add-labels on    *)
(* the native path) contains an entry with that name exactly once, plus the *)
(* marker label.                                                            *)
C5_LabelNormalization ==
    \A k \in DOMAIN calls :
        (calls[k].op \in {"createIssue", "addLabels"} /\ calls[k].ok) =>
            LET requested == RequestedNames(calls[k])
                given == NamesOf(ResultFor(calls[k]).issue.labels)
                marker == MarkerName(source)
            IN  /\ \A x \in Range(given) \cup Range(requested) \cup {marker} :
                       Occurrences(requested, x) =
                           Occurrences(given, x) + (IF x = marker THEN 1 ELSE 0)
                /\ Len(requested) = Len(given) + 1

\* add-labels has been sent for an issue that carries a bare string label
\* and an object label.
C5_Witness ==
    \E k \in DOMAIN calls :
        /\ calls[k].op = "addLabels" /\ calls[k].ok
        /\ \E a, b \in Range(ResultFor(calls[k]).issue.labels) :
               a.kind = "string" /\ b.kind = "object"


-----------------------------------------------------------------------------
(* C6 *)

\* The destination issues that came from source issue n in run r.
IssuesFrom(n, r) ==
    {k \in DOMAIN dstIssues : dstIssues[k].from = n /\ dstIssues[k].run = r}

(* C6: for every combination of same or different owner and of source and   *)
(* destination visibility, transferring a fetched, non-duplicate source     *)
(* issue ends with exactly one new issue at the destination that carries    *)
(* the source issue's title and its labels; no combination is rejected or   *)
(* left without a destination issue.                                        *)
C6_EveryCombinationTransfers ==
    \A k \in DOMAIN results :
        LET e == results[k]
        IN  IF e.kind = "skipped"
            THEN \* only a duplicate is left without a new issue
                 /\ IssuesFrom(e.issue.number, e.run) = {}
                 /\ \E d \in Range(dstIssues) :
                        d.title = e.issue.title /\ MarkerName(source) \in d.labels
            ELSE /\ e.returned # <<>>
                 /\ IssuesFrom(e.issue.number, e.run) = {e.returned[1].number}
                 /\ dstIssues[e.returned[1].number] = e.returned[1]
                 /\ e.returned[1].title = e.issue.title
                 /\ Range(NamesOf(e.issue.labels)) \subseteq e.returned[1].labels

\* A labelled issue has been transferred from a private repository to a
\* public repository of the same owner.
C6_Witness ==
    /\ srcPrivate = Flag(TRUE) /\ dstPrivate = Flag(FALSE)
    /\ toLowerCase(ParseOwnerRepo(source).owner) = toLowerCase(ParseOwnerRepo(destination).owner)
    /\ impl = "index"
    /\ \E k \in DOMAIN results :
           results[k].kind # "skipped" /\ Len(results[k].issue.labels) = 2


-----------------------------------------------------------------------------
(* C4 *)

\* The marker labels among a set of label names.
MarkersAmong(names) == {x \in names : IsMarkerName(x)}

\* C4 as claimed: every issue that the transfer operation creates by copy or
\* re-labels after a native transfer carries exactly one marker label, and
\* that label names the repository the issue was fetched from, for every
\* label set the source issue can have.
C4_ExactlyOneMarker ==
    \A k \in DOMAIN results :
        results[k].kind # "skipped" =>
            MarkersAmong(dstIssues[results[k].returned[1].number].labels)
                = {MarkerName(source)}

\* C4 as amended: every issue that the transfer operation creates by copy or
\* re-labels after a native transfer carries the marker label that names the
\* repository the issue was fetched from, and the only other marker labels it
\* carries are those the source issue had; it carries exactly one marker
\* label when the source issue has none.
C4_MarkerOfTheOrigin ==
    \A k \in DOMAIN results :
        results[k].kind # "skipped" =>
            LET carried == dstIssues[results[k].returned[1].number].labels
                given == Range(NamesOf(results[k].issue.labels))
            IN  /\ MarkerName(source) \in carried
                /\ MarkersAmong(carried) = {MarkerName(source)} \cup MarkersAmong(given)
                /\ MarkersAmong(given) = {} => Cardinality(MarkersAmong(carried)) = 1

\* An issue that carried the marker of an earlier transfer has been
\* transferred and now carries two marker labels.
C4_Witness ==
    \E k \in DOMAIN results :
        /\ results[k].kind # "skipped"
        /\ Cardinality(MarkersAmong(dstIssues[results[k].returned[1].number].labels)) = 2


-----------------------------------------------------------------------------
(* C3 *)

\* Native transfer as the claim allows it: the owners are equal ignoring
\* letter case, and the source is public or both repositories are private.
NativeTransferExpected ==
    /\ toLowerCase(ParseOwnerRepo(source).owner)
           = toLowerCase(ParseOwnerRepo(destination).owner)
    /\ (srcPrivate = Flag(FALSE) \/ (srcPrivate = Flag(TRUE) /\ dstPrivate = Flag(TRUE)))

\* C3 as claimed: for every non-duplicate issue the destination's transfer
\* operation, as invoked by the Transfer Engine, selects native transfer
\* exactly when the source owner equals the destination owner ignoring letter
\* case and (the source is Public or both are Private), and copy otherwise.
C3_ModeSelection ==
    mode # "none" => (mode = "native" <=> NativeTransferExpected)

\* C3 for the Repository class of src/index.ts alone, which the engine's
\* import does not resolve to: that class selects the mode as claimed.
C3_ModeSelectionOfIndexClass ==
    (impl = "index" /\ mode # "none") => (mode = "native" <=> NativeTransferExpected)

-----------------------------------------------------------------------------
(* C1 *)

RunFailed(r) == \E k \in DOMAIN reported : reported[k].run = r

ResultsOf(r) == {k \in DOMAIN results : results[k].run = r}

\* The titles of the source issues the first run went through.
FirstRunTitles == {results[k].issue.title : k \in ResultsOf(1)}

\* The issue set is outside the documented limit of title-based duplicate
\* detection: its titles are pairwise distinct, and none of them is the title
\* of a marked issue the destination held before the first run.
DistinctNewTitles ==
    /\ Cardinality(FirstRunTitles) = Len(issueNumbers)
    /\ \A k \in DOMAIN dstIssues :
           (dstIssues[k].via = "before" /\ MarkerName(source) \in dstIssues[k].labels)
               => dstIssues[k].title \notin FirstRunTitles

\* The marked destination issues that carry the title of an issue of the set.
HeldForTheSet ==
    {k \in DOMAIN dstIssues : /\ MarkerName(source) \in dstIssues[k].labels
                              /\ dstIssues[k].title \in FirstRunTitles}

\* The second run only skips: no create-issue call, no transfer-issue call,
\* no failure on an issue of the set, one 'skipped' outcome per issue.
SecondRunOnlySkips ==
    /\ \A k \in DOMAIN calls :
           calls[k].op \notin {"createIssue", "transferIssueMutation"}
    /\ \A k \in ResultsOf(2) : results[k].kind = "skipped"
    /\ error # "not-found"
    /\ pc = "done" => Cardinality(ResultsOf(2)) = Len(issueNumbers)

\* C1 as claimed: running the Transfer Engine twice with the same inputs
\* against a remote whose state persists: after the first run the destination
\* holds exactly one issue per source issue of the set, and the second run
\* issues no create-issue and no transfer-issue call and yields only
\* 'skipped' outcomes.  The claim is taken for the issue sets whose titles
\* are pairwise distinct and new to the destination, where title-based
\* duplicate detection tells the issues apart.
C1_Idempotence ==
    /\ (run = 1 /\ pc = "done" /\ DistinctNewTitles) =>
           Cardinality(HeldForTheSet) = Len(issueNumbers)
    /\ (run = 2 /\ ~RunFailed(1) /\ DistinctNewTitles) => SecondRunOnlySkips

\* C1 for the first runs that transferred nothing natively: the second run
\* only skips.
C1_IdempotenceOfCopies ==
    /\ (run = 1 /\ pc = "done" /\ DistinctNewTitles) =>
           Cardinality(HeldForTheSet) = Len(issueNumbers)
    /\ (run = 2 /\ ~RunFailed(1) /\ DistinctNewTitles
          /\ \A k \in DOMAIN dstIssues : dstIssues[k].via # "native") =>
           SecondRunOnlySkips

\* C1 without the restriction on the titles: two issues of the set that share
\* a title leave one destination issue for the two.
C1_IdempotenceOfEveryIssueSet ==
    /\ (run = 1 /\ pc = "done") =>
           Cardinality(HeldForTheSet) = Len(issueNumbers)
    /\ (run = 2 /\ ~RunFailed(1)) => SecondRunOnlySkips

-----------------------------------------------------------------------------
(* C2 *)

\* The source issues run r has transferred or copied.
HandledIn(r) == {dstIssues[k].from : k \in {j \in DOMAIN dstIssues : dstIssues[j].run = r}}

\* C2 as claimed: if a run is aborted by a remote-call failure at any point,
\* a later re-run with the same inputs creates no second destination issue
\* for any source issue the aborted run had already transferred or copied:
\* each such issue is handled as a no-op skip.
C2_RerunAfterAbort ==
    (run = 2 /\ reported # <<>> /\ reported[1] = [run |-> 1, error |-> "remote"]) =>
        \A n \in HandledIn(1) :
            /\ IssuesFrom(n, 2) = {}
            /\ \A k \in ResultsOf(2) :
                   results[k].issue.number = n => results[k].kind = "skipped"
            /\ ~(error = "not-found" /\ Head(todo) = n)

\* C2 for the issues the aborted run had copied: the re-run skips them.
C2_RerunAfterAbortedCopies ==
    (run = 2 /\ reported # <<>> /\ reported[1] = [run |-> 1, error |-> "remote"]) =>
        \A n \in HandledIn(1) :
            (\E k \in IssuesFrom(n, 1) : dstIssues[k].via = "copy") =>
                /\ IssuesFrom(n, 2) = {}
                /\ \A k \in ResultsOf(2) :
                       results[k].issue.number = n => results[k].kind = "skipped"
                /\ ~(error = "not-found" /\ Head(todo) = n)

-----------------------------------------------------------------------------
(* C11 *)

\* The observations of run r for issue number n.
ObservationsOf(r, n) ==
    {k \in DOMAIN observations :
        observations[k].run = r /\ observations[k].issueNumber = n}

\* Every result has its observation exactly when it carries a destination
\* issue number, and every observation correlates the numbers of one issue.
ObservationsMatchResults ==
    /\ \A k \in DOMAIN results :
           LET e == results[k]
           IN  /\ e.returned # <<>> <=> ObservationsOf(e.run, e.issue.number) # {}
               /\ e.kind = "skipped" => ObservationsOf(e.run, e.issue.number) = {}
    /\ \A k \in DOMAIN observations :
           LET o == observations[k]
           IN  \E j \in DOMAIN results :
                   /\ results[j].run = o.run
                   /\ results[j].issue.number = o.issueNumber
                   /\ results[j].returned # <<>>
                   /\ results[j].returned[1].number = o.number
                   /\ o.source = source /\ o.destination = destination

\* C11 as claimed: the Transfer Engine emits a success observation for an
\* issue number if and only if the transfer operation returned a result that
\* carries a destination issue number; a Skipped issue never produces one,
\* and the observation names the source number and the destination number of
\* the same issue.
C11_SuccessObservation == ObservationsMatchResults

\* C11 for src/lib/transfer-issues.ts alone, whose log line is guarded by
\* destinationIssue?.number !== undefined.
C11_SuccessObservationOfSource == impl # "dist" => ObservationsMatchResults

-----------------------------------------------------------------------------
(* C12 *)

IsWhiteSpace(c) == c \in {" ", "\t"}

\* The tokens of a whitespace-delimited string: its maximal runs of
\* characters that are not white space, as pairs of positions.
TokensOf(s) ==
    {t \in (1..Len(s)) \X (1..Len(s)) :
        /\ t[1] <= t[2]
        /\ \A k \in t[1]..t[2] : ~IsWhiteSpace(CharAt(s, k))
        /\ t[1] = 1 \/ IsWhiteSpace(CharAt(s, t[1] - 1))
        /\ t[2] = Len(s) \/ IsWhiteSpace(CharAt(s, t[2] + 1))}

\* The integers that appear as tokens of the string.
IntegersIn(s) ==
    {DecimalValue(SubSeq(s, t[1], t[2])) :
        t \in {u \in TokensOf(s) : \A k \in u[1]..u[2] : IsDigit(CharAt(s, k))}}

\* The parsed set is the set of the integers of the input, each once, and a
\* run whose set is empty has failed without a remote call.
ParsedAsTheIntegersOfTheInput ==
    /\ Range(issueNumbers) = IntegersIn(input)
    /\ Cardinality(Range(issueNumbers)) = Len(issueNumbers)
    /\ IntegersIn(input) = {} =>
           /\ pc = "failed" /\ error = "no-issue-numbers"
           /\ calls = <<>>

\* C12 as claimed: the front end turns the whitespace-delimited issue_numbers
\* string into a set that contains exactly the integers appearing as tokens
\* of the input: non-numeric tokens are dropped, repeated numbers collapse,
\* no number absent from the input is added, and when the resulting set is
\* empty the run fails before any remote call.
C12_IssueNumbersParsing ==
    pc # "main" => ParsedAsTheIntegersOfTheInput

\* The tokens of the input are separated by single spaces: the only white
\* space between two tokens is one space.
SingleSpaced(s) ==
    LET t == Trim(s)
    IN  /\ \A k \in 1..Len(t) : CharAt(t, k) # "\t"
        /\ \A k \in 1..(Len(t) - 1) : ~(CharAt(t, k) = " " /\ CharAt(t, k + 1) = " ")

\* C12 for the inputs whose tokens are separated by single spaces.
C12_ParsingOfSingleSpacedInput ==
    (pc # "main" /\ SingleSpaced(input)) => ParsedAsTheIntegersOfTheInput

-----------------------------------------------------------------------------
(* C13 *)

\* The place of issue number n in the iteration order of the input set.
PositionIn(n) == CHOOSE i \in DOMAIN issueNumbers : issueNumbers[i] = n

\* C13: issue numbers are processed strictly one at a time in the iteration
\* order of the input set.  In the sequence of the remote calls of a run the
\* calls of one issue are contiguous and the issues follow the iteration
\* order without a gap, each issue starting with its fetch; every call has
\* settled without an error before the next call is made, so no two calls
\* are in flight; and the call the run is waiting for is a call for the
\* issue the loop is at.
C13_OneIssueAtATime ==
    /\ \A k \in DOMAIN calls : calls[k].issue \in Range(issueNumbers)
    /\ calls # <<>> => calls[1].op = "getIssue" /\ PositionIn(calls[1].issue) = 1
    /\ \A k \in 1..(Len(calls) - 1) :
           /\ calls[k].ok
           /\ \/ calls[k + 1].issue = calls[k].issue /\ calls[k + 1].op # "getIssue"
              \/ /\ PositionIn(calls[k + 1].issue) = PositionIn(calls[k].issue) + 1
                 /\ calls[k + 1].op = "getIssue"
    /\ (pc \in RemotePositions /\ calls # <<>>) =>
           PositionIn(Head(todo)) - PositionIn(Last(calls).issue) =
               (IF pc = "getIssue" THEN 1 ELSE 0)

\* Two issues have been copied in one run, labels created for each of them.
C13_Witness ==
    /\ pc = "done"
    /\ Len(issueNumbers) = 2
    /\ \A n \in Range(issueNumbers) :
           \E j, k \in DOMAIN calls :
               /\ calls[j].issue = n /\ calls[j].op = "createLabelCall"
               /\ calls[k].issue = n /\ calls[k].op = "createIssue"

-----------------------------------------------------------------------------
(* C14 *)

\* The remote calls of the current run made for issue number n.
CallsFor(n) == {k \in DOMAIN calls : calls[k].issue = n}

\* The issues of the current run that ended Skipped had no remote call but
\* their fetch and the listing of the issue cache.
SkippedWithoutFurtherCall ==
    \A k \in ResultsOf(run) :
        results[k].kind = "skipped" =>
            /\ \A j \in CallsFor(results[k].issue.number) :
                   calls[j].op \in {"getIssue", "populateIssueCache"}
            /\ results[k].issue.number \notin Range(todo)

\* The step that finds a duplicate: the attempt ends Skipped, the remote and
\* the label cache stay as they are, no call is made, the run goes on with
\* the rest of the batch.
SkipStep ==
    (pc = "findDuplicate" /\ HasDuplicateIssue(issueCache, issue[1].title)) =>
        /\ UNCHANGED <<srcIssues, dstIssues, dstLabels, labelCache, issueCache, calls>>
        /\ UNCHANGED <<error, reported>>
        /\ results' = Append(results, [run |-> run, issue |-> issue[1],
                                       kind |-> "skipped", returned |-> <<>>])
        /\ todo' = Tail(todo)
        /\ pc' = "loop"

\* The step of the loop after an attempt: the next issue number is fetched.
NextIssueStep ==
    (pc = "loop" /\ todo # <<>>) => (pc' = "getIssue" /\ todo' = todo)

\* C14: when the duplicate check finds an issue with the same title in the
\* Issue Cache, the attempt ends Skipped with no further remote call for that
\* issue (no create-label, visibility query, id lookup, transfer-issue,
\* add-labels or create-issue), the destination's issues and labels and the
\* Label Cache are unchanged, and the batch is not aborted: the next issue
\* number is fetched and processed.
C14_DuplicateIsSkipped ==
    /\ []SkippedWithoutFurtherCall
    /\ [][SkipStep /\ NextIssueStep]_vars

\* An issue has been skipped as a duplicate and the next issue of the batch
\* has then been fetched and copied or transferred in the same run.
C14_Witness ==
    \E j, k \in ResultsOf(run) :
        /\ j < k
        /\ results[j].kind = "skipped"
        /\ results[k].kind # "skipped"
        /\ impl # "dist"

-----------------------------------------------------------------------------
(* C15 *)

\* create-if-absent finds the label in the populated cache: no call is made
\* and remote and cache stay as they are.
FoundLabelStep ==
    (pc = "findLabel" /\ HasLabel(labelCache, labels[li].name)) =>
        /\ UNCHANGED <<calls, labelCache, dstLabels>>
        /\ Last(labelResults').name = labels[li].name

\* create-if-absent does not find the label and its create-label call
\* succeeds: that one call is made, its result is appended to the cache and
\* returned.
AbsentLabelStep ==
    (pc = "createLabelCall" /\ pc' # "failed") =>
        /\ calls' = Append(calls, Call("createLabelCall", issue[1].number,
                                       <<labels[li].name>>, TRUE))
        /\ labelCache' = Append(labelCache, labels[li].name)
        /\ Last(labelResults').returned = <<labels[li].name>>

\* A create-label call is made only for a label the cache does not hold, and
\* never twice for one name in a run.
OneCreateLabelCallPerName ==
    /\ pc = "createLabelCall" => ~HasLabel(labelCache, labels[li].name)
    /\ \A j, k \in DOMAIN calls :
           (j < k /\ calls[j].op = "createLabelCall" /\ calls[k].op = "createLabelCall")
               => calls[j].arg # calls[k].arg \/ calls[k].arg = <<>>

\* C15 as claimed, for what create-if-absent does to the remote and to the
\* cache: when the populated cache holds a label of the same name no
\* create-label call is made; otherwise exactly one create-label call is
\* made, its result is appended to the cache and that result is returned.
C15_CreateIfAbsent ==
    /\ []OneCreateLabelCallPerName
    /\ [][FoundLabelStep /\ AbsentLabelStep]_vars

\* C15 for the classes of src/index.ts and src/lib/repository.ts.
C15_CreateIfAbsentOfSource ==
    /\ [](impl # "dist" => OneCreateLabelCallPerName)
    /\ [][impl # "dist" => (FoundLabelStep /\ AbsentLabelStep)]_vars

\* C15 with the value returned for a label the cache holds: the existing
\* cache entry.
C15_CreateIfAbsentReturningTheEntry ==
    [][(pc = "findLabel" /\ HasLabel(labelCache, labels[li].name)) =>
           Last(labelResults').returned = <<labels[li].name>>]_vars

-----------------------------------------------------------------------------
(* C16 *)

\* The calls of the current run that start the paginated list-issues fetch:
\* its requests for page 1.
IssueFetchStarts ==
    {k \in DOMAIN calls :
        calls[k].op = "populateIssueCache" /\ calls[k].ok /\ calls[k].arg[2] = 1}

\* The calls of the current run that start the paginated list-labels fetch.
LabelFetchStarts ==
    {k \in DOMAIN calls :
        calls[k].op = "populateLabelCache" /\ calls[k].ok /\ calls[k].arg[1] = 1}

\* C16 as claimed: during one run each cache of a Repository Model is
\* populated at most once: the paginated list-labels fetch is started at most
\* once and the paginated list-issues fetch is started at most once, on the
\* first access, however many issues are processed and whatever the remote
\* listings return, an empty listing included.  Stated for the Repository
\* class of src/index.ts.
C16_PopulatedAtMostOnce ==
    impl = "index" =>
        /\ Cardinality(IssueFetchStarts) <= 1
        /\ Cardinality(LabelFetchStarts) <= 1

\* The destination held an issue with the marker of the source before the
\* first run.
MarkedIssueBefore ==
    \E k \in DOMAIN dstIssues :
        dstIssues[k].via = "before" /\ IssueCacheFilter(source) \in dstIssues[k].labels

\* C16 for the listings that are not empty, and for the label cache of
\* src/index.ts and src/lib/repository.ts, which grows with each label the
\* run creates.
C16_PopulatedOnceUnlessEmpty ==
    /\ MarkedIssueBefore => Cardinality(IssueFetchStarts) <= 1
    /\ impl # "dist" => Cardinality(LabelFetchStarts) <= 1

-----------------------------------------------------------------------------
(* C17 *)

\* The destination issues that run r created or received.
IssuesOfRun(r) == {k \in DOMAIN dstIssues : dstIssues[k].run = r}

\* Of two issues of one batch with the same title the second is skipped, and
\* no run leaves two destination issues with one title.
SecondOfATitleIsSkipped ==
    /\ \A j, k \in DOMAIN results :
           (/\ j < k
            /\ results[j].run = results[k].run
            /\ results[j].issue.title = results[k].issue.title)
               => results[k].kind = "skipped"
    /\ \A j, k \in DOMAIN dstIssues :
           (/\ j # k
            /\ dstIssues[j].run = dstIssues[k].run
            /\ dstIssues[j].run # 0)
               => dstIssues[j].title # dstIssues[k].title

\* C17 as claimed: duplicate detection is by exact title only: when two
\* distinct source issues of one batch have the same title, the one processed
\* second is detected as a duplicate and skipped, so a run never creates two
\* destination issues with the same title, whatever the destination held
\* before the run.  Stated for the Repository class of src/index.ts.
C17_SameTitleIsSkipped == impl = "index" => SecondOfATitleIsSkipped

\* C17 for the destinations that held no issue with the marker of the source
\* before the first run: the issue cache is listed again for the second
\* issue and holds the first.
C17_SameTitleIsSkippedAtUnmarkedDestination ==
    ~MarkedIssueBefore => SecondOfATitleIsSkipped

-----------------------------------------------------------------------------
(* C18 *)

NativeOps ==
    <<"getSourceIssueId", "getDestinationRepoId", "transferIssueMutation", "addLabels">>

\* The place of a native-path call in the order of the native path (0 for
\* any other call).
NativePlace(op) ==
    IF \E i \in 1..4 : NativeOps[i] = op
    THEN CHOOSE i \in 1..4 : NativeOps[i] = op
    ELSE 0

\* The names of the label list prepared for a source issue by src/index.ts:
\* the marker, then the names of the issue's labels.
PreparedNames(sourceIssue) == <<MarkerName(source)>> \o NamesOf(sourceIssue.labels)

\* The issue the transfer mutation of the current run moved for issue n.
MovedFor(n) ==
    CHOOSE d \in Range(dstIssues) : d.via = "native" /\ d.from = n /\ d.run = run

\* C18: on the native path the calls occur in this order: lookup of the
\* source issue's internal id, lookup of the destination repository's
\* internal id, the transfer mutation, then one add-labels call on the
\* destination for the number of the transferred issue with exactly the
\* names of the prepared label list, marker included; the returned issue has
\* its labels replaced by the result of that add-labels call, and
\* create-issue is never called on this path.
C18_NativePathOrder ==
    /\ \A k \in DOMAIN calls :
           LET place == NativePlace(calls[k].op)
           IN  /\ (place > 1 /\ calls[k].ok) =>
                      /\ k > 1
                      /\ calls[k - 1].op = NativeOps[place - 1]
                      /\ calls[k - 1].ok
                      /\ calls[k - 1].issue = calls[k].issue
               /\ (place = 1 /\ calls[k].ok) =>
                      \A j \in CallsFor(calls[k].issue) :
                          /\ calls[j].op # "createIssue"
                          /\ j < k => NativePlace(calls[j].op) = 0
                          /\ j > k => NativePlace(calls[j].op) = j - k + 1
               /\ (calls[k].op = "addLabels" /\ calls[k].ok) =>
                      /\ calls[k].target = "destination"
                      /\ calls[k].arg[1] = MovedFor(calls[k].issue).number
                      /\ calls[k].arg[2] = PreparedNames(ResultFor(calls[k]).issue)
    /\ \A k \in ResultsOf(run) :
           results[k].kind = "transferred" =>
               LET n == results[k].issue.number
                   sent == {j \in CallsFor(n) : calls[j].op = "addLabels"}
               IN  /\ Cardinality(sent) = 1
                   /\ \A j \in sent : calls[j].ok
                   /\ results[k].returned[1].number = MovedFor(n).number
                   /\ results[k].returned[1].labels = Range(PreparedNames(results[k].issue))
                   /\ dstIssues[MovedFor(n).number].labels = results[k].returned[1].labels

\* An issue with a string label and an object label has been transferred
\* natively and returned.
C18_Witness ==
    \E k \in ResultsOf(run) :
        /\ results[k].kind = "transferred"
        /\ Len(results[k].issue.labels) = 2
        /\ \E j \in CallsFor(results[k].issue.number) : calls[j].op = "addLabels"

-----------------------------------------------------------------------------
(* C19: the request of the copy *)

\* The logins of a list of users, in order, users without one left out.
RECURSIVE LoginsOf(_)
LoginsOf(users) ==
    IF users = <<>> THEN <<>>
    ELSE LET login == Head(users).login
         IN  (IF login = <<>> THEN <<>> ELSE login) \o LoginsOf(Tail(users))

\* The logins an issue's list of assignees holds; none when it has no list.
AssigneeLogins(i) == IF i.assignees = <<>> THEN <<>> ELSE LoginsOf(i.assignees[1])

\* The logins a create-issue call carries as 'assignees'.
SentLogins(call) == IF call.arg[5] = <<>> THEN <<>> ELSE call.arg[5][1]

CreateCallsFor(n) == {j \in CallsFor(n) : calls[j].op = "createIssue"}

\* The create-issue call made for a copied issue is the only one, carries
\* its title, its body or "", the prepared labels and the logins of its
\* assignees, and what it created is what was returned.
CopiedByOneRequest(k) ==
    LET i == results[k].issue
        sent == CreateCallsFor(i.number)
    IN  /\ Cardinality(sent) = 1
        /\ \A j \in sent :
               /\ calls[j].ok
               /\ calls[j].target = "destination"
               /\ calls[j].arg[1] = i.title
               /\ calls[j].arg[3] = (IF i.body = <<>> THEN "" ELSE i.body[1])
               /\ Range(RequestedNames(calls[j])) = Range(PreparedNames(i))
               /\ Len(RequestedNames(calls[j])) = Len(PreparedNames(i))
               /\ SentLogins(calls[j]) = AssigneeLogins(i)
        /\ results[k].returned # <<>>
        /\ results[k].returned[1].via = "copy"
        /\ results[k].returned[1].from = i.number
        /\ results[k].returned[1].title = i.title
        /\ dstIssues[results[k].returned[1].number] = results[k].returned[1]

\* The primary assignee goes out exactly when the issue has no list of
\* assignees.
PrimaryOnlyWithoutList(k) ==
    LET i == results[k].issue
    IN  \A j \in CreateCallsFor(i.number) :
            calls[j].arg[4] = (IF i.assignees = <<>> THEN AssigneeLogin(i) ELSE <<>>)

\* C19: on the copy path exactly one create-issue call is made at the
\* destination with the source issue's title, its body or the empty string,
\* the prepared label list and the assignees' logins; the primary assignee
\* is sent only when the issue has no assignees list and is omitted whenever
\* a list is present; the created issue is returned.
C19_CopyRequest ==
    \A k \in ResultsOf(run) :
        results[k].kind = "copied" => CopiedByOneRequest(k) /\ PrimaryOnlyWithoutList(k)

\* C19 for src/index.ts and src/lib/repository.ts: every part of the
\* statement holds.
C19_CopyRequestOfSource ==
    impl # "dist" => C19_CopyRequest

\* C19 for dist/lib/repository.js: everything but the omission of the
\* primary assignee holds, and the primary assignee's login is always sent.
C19_CopyRequestOfDist ==
    impl = "dist" =>
        \A k \in ResultsOf(run) :
            results[k].kind = "copied" =>
                /\ CopiedByOneRequest(k)
                /\ \A j \in CreateCallsFor(results[k].issue.number) :
                       calls[j].arg[4] = AssigneeLogin(results[k].issue)

-----------------------------------------------------------------------------
(* C20: a failed remote call ends the run *)

ReportsOf(r) == {k \in DOMAIN reported : reported[k].run = r}

FailedCalls == {k \in DOMAIN calls : ~calls[k].ok}

\* A failed call is the last call of its run, the run has ended in failure,
\* and the one failure reported for the run is that of the call.
FailureEndsTheRun ==
    \A k \in FailedCalls :
        /\ k = Len(calls)
        /\ pc = "failed"
        /\ error = "remote"
        /\ Cardinality(ReportsOf(run)) = 1
        /\ \A j \in ReportsOf(run) : reported[j].error = "remote"

\* The step in which a call fails leaves the remote as the calls before it
\* made it, and while the run is failed nothing happens but a new run, which
\* finds the issues and labels created before the failure.
FailureStep ==
    /\ FailedCalls' # {} /\ FailedCalls = {} =>
           /\ remoteVars' = remoteVars
           /\ results' = results
           /\ SubSeq(calls', 1, Len(calls)) = calls
    /\ FailedCalls # {} =>
           /\ run' = run + 1
           /\ remoteVars' = remoteVars
           /\ reported' = reported

\* C20: a failed remote call is neither caught nor retried: the failed call
\* is not issued again, no further remote call is made in the run, the first
\* failure is the one reported as the run's failure, and the issues and
\* labels created before the failure remain.
C20_FailureIsFinal ==
    []FailureEndsTheRun /\ [][FailureStep]_vars

\* A call has failed after the run created a label and an issue at the
\* destination, with an issue number still to go.
C20_Witness ==
    /\ FailedCalls # {}
    /\ IssuesOfRun(run) # {}
    /\ dstLabels # <<>>
    /\ Len(todo) > 0
    /\ \E k \in DOMAIN calls : calls[k].op = "createLabelCall" /\ calls[k].ok

-----------------------------------------------------------------------------
(* C21: visibility of the Repository objects *)

\* The visibility the statement gives a repository whose flag is 'flag'.
StatedVisibility(flag) == IF flag = Flag(FALSE) THEN "Public" ELSE "Private"

VisibilityQueries == {k \in DOMAIN calls : calls[k].op = "populateVisibility"}

\* The destination's visibility is unknown exactly as long as no query for
\* it has settled, a resolved visibility is the stated one, at most one
\* query resolves the destination's in a run, and the mode is decided with
\* both known.
VisibilityResolved ==
    /\ visibility = "undefined" <=> \A k \in VisibilityQueries : ~calls[k].ok
    /\ visibility # "undefined" => visibility = StatedVisibility(dstPrivate)
    /\ srcVisibility # "undefined" => srcVisibility = StatedVisibility(srcPrivate)
    /\ Cardinality(VisibilityQueries) <= 1
    /\ impl # "index" => visibility = "undefined" /\ srcVisibility = "undefined"
    /\ (impl = "index" /\ mode # "none") =>
           visibility # "undefined" /\ srcVisibility # "undefined"

\* A resolved visibility stays as it is for as long as its Repository object
\* lives: the destination's to the end of the run, the source's to the
\* return of the transferIssue call that made the object.
VisibilityStep ==
    /\ visibility # "undefined" => (visibility' = visibility \/ run' # run)
    /\ srcVisibility # "undefined" => (srcVisibility' = srcVisibility \/ issue' = <<>>)

\* C21: a Repository's visibility is unknown until it is first resolved,
\* becomes Public only when the remote reports the private flag as false
\* and Private in every other case, and never changes once resolved; the
\* destination's visibility is resolved by at most one remote query per
\* run, and both visibilities are resolved before the mode is decided.
C21_VisibilityResolvedOnce ==
    []VisibilityResolved /\ [][VisibilityStep]_vars

\* The mode is being decided for the second issue of a run whose
\* destination has no private flag: its visibility, resolved for the first
\* issue, is Private.
C21_Witness ==
    /\ impl = "index"
    /\ dstPrivate = NoFlag
    /\ visibility = "Private"
    /\ ResultsOf(run) # {}
    /\ mode # "none"
    /\ Cardinality(VisibilityQueries) = 1

-----------------------------------------------------------------------------
(* C22: the requests of a paginated fetch *)

FetchPositions == {"populateIssueCache", "populateLabelCache"}

\* What the remote lists for the fetch in progress.
ListingOf(position) ==
    IF position = "populateLabelCache" THEN dstLabels
    ELSE IssuesLabelled(IssueCacheFilter(FullName(origin[1])))

\* The page index and the page size of a list request.
PageIndexOf(call) == call.arg[Len(call.arg) - 1]

PageSizeOf(call) == call.arg[Len(call.arg)]

\* A list request that settles: size 100; page 1 when it opens a fetch and
\* the page after the last request otherwise; the fetch goes on exactly when
\* the page held an entry, and so ends with request N + 1 for N such pages.
PageRequestStep ==
    (pc \in FetchPositions /\ calls' # calls /\ Last(calls').ok) =>
        LET request == Last(calls')
            pages == NonEmptyPages(ListingOf(pc))
            opens == calls = <<>> \/ Last(calls).op # pc
        IN  /\ request.op = pc
            /\ Len(calls') = Len(calls) + 1
            /\ PageSizeOf(request) = 100
            /\ PageIndexOf(request) = IF opens THEN 1 ELSE PageIndexOf(Last(calls)) + 1
            /\ PageIndexOf(request) <= pages + 1
            /\ pc' = pc <=> PageIndexOf(request) <= pages
            /\ pc' # pc => pc' \notin FetchPositions

\* C22: a paginated fetch requests pages 1, 2, 3, ... in strictly
\* increasing order with a page size of 100, requests no page after the
\* first absent or empty one (N + 1 requests for N non-empty pages), and
\* terminates whenever the remote eventually returns an empty page.
C22_PaginatedFetch ==
    /\ [][PageRequestStep]_vars
    /\ \A p \in FetchPositions : (pc = p) ~> (pc # p)

\* The label fetch has ended with its third request, after two full pages.
C22_Witness ==
    /\ pc = "findLabel"
    /\ Len(dstLabels) = 2 * 100
    /\ Last(calls).op = "populateLabelCache"
    /\ PageIndexOf(Last(calls)) = 3
    /\ Len(labelCache) = 200

-----------------------------------------------------------------------------
(* C23: the labels of a request are in the label cache *)

LabelledRequests == {"createIssue", "addLabels"}

\* The names #createLabel has been through for the issue at hand, in order.
LabelsDone == [k \in DOMAIN labelResults |-> labelResults[k].name]

\* When the request is about to go out, #createLabel has returned for every
\* label of the prepared list and each of their names is in the cache.
PreparedBeforeTheRequest ==
    pc \in LabelledRequests =>
        /\ LabelsDone = NamesOf(labels)
        /\ Range(NamesOf(labels)) \subseteq Range(labelCache)

\* The names a request carried are in the cache and at the destination.
RequestedAreCached ==
    \A k \in DOMAIN calls :
        (calls[k].op \in LabelledRequests /\ calls[k].ok) =>
            /\ Range(RequestedNames(calls[k])) \subseteq Range(labelCache)
            /\ Range(RequestedNames(calls[k])) \subseteq Range(dstLabels)

\* C23: at the moment create-issue (copy) or add-labels (native) is called
\* on the destination, every label name in that request is the name of an
\* entry of the destination's label cache: create-if-absent has completed
\* for every label of the prepared list.  Stated for the classes of
\* src/index.ts and src/lib/repository.ts.
C23_LabelsCachedBeforeRequest ==
    impl \in {"index", "lib"} => PreparedBeforeTheRequest /\ RequestedAreCached

\* A request has gone out with a label the listing held and two the run
\* created.
C23_Witness ==
    /\ impl \in {"index", "lib"}
    /\ \E k \in DOMAIN calls :
           /\ calls[k].op \in LabelledRequests
           /\ calls[k].ok
           /\ Len(RequestedNames(calls[k])) = 3
           /\ \E j \in DOMAIN calls :
                  /\ j < k
                  /\ calls[j].op = "createLabelCall"
                  /\ calls[j].arg[1] \in Range(RequestedNames(calls[k]))
           /\ \E x \in Range(RequestedNames(calls[k])) :
                  \A j \in DOMAIN calls : calls[j].op = "createLabelCall" => calls[j].arg # <<x>>

-----------------------------------------------------------------------------
(* C24: create-label once per name *)

CreateLabelCalls == {k \in DOMAIN calls : calls[k].op = "createLabelCall"}

\* The name a create-label call asked for; that of a rejected call is the
\* label the run stopped at.
CreatedName(k) == IF calls[k].ok THEN calls[k].arg[1] ELSE labels[li].name

\* The labels the destination held when the run's listing was fetched: all
\* but those the run's create-label calls have added since.
ListedLabels ==
    SubSeq(dstLabels, 1,
           Len(dstLabels) - Cardinality({k \in CreateLabelCalls : calls[k].ok}))

NoRepeats(seq) == \A j, k \in DOMAIN seq : seq[j] = seq[k] => j = k

\* No two create-label calls of the run ask for one name, none asks for a
\* listed name, and a call about to go out asks for a name that is new to
\* the destination.
CreateLabelOncePerName ==
    /\ \A j, k \in CreateLabelCalls : CreatedName(j) = CreatedName(k) => j = k
    /\ \A k \in CreateLabelCalls : CreatedName(k) \notin Range(ListedLabels)
    /\ pc = "createLabelCall" => labels[li].name \notin Range(dstLabels)

\* C24: within one run create-label is called at most once per distinct
\* label name on the destination and never for a name that the
\* destination's label listing returned; so, when the listing holds no two
\* labels of one name, the label cache never holds two entries of one name.
\* Stated for the class of src/index.ts.
C24_CreateLabelOnce ==
    impl = "index" =>
        /\ CreateLabelOncePerName
        /\ NoRepeats(ListedLabels) => NoRepeats(labelCache)

\* The second issue of a run finds in the cache a label the run created
\* for the first, next to a label the listing returned.
C24_Witness ==
    /\ impl = "index"
    /\ ResultsOf(run) # {}
    /\ ListedLabels # <<>>
    /\ \E k \in CreateLabelCalls, j \in DOMAIN labelResults :
           /\ calls[k].ok
           /\ calls[k].issue # issue[1].number
           /\ labelResults[j].found
           /\ labelResults[j].name = calls[k].arg[1]

-----------------------------------------------------------------------------
(* C25: the filter of the issue listing and the marker *)

IssueFetches == {k \in DOMAIN calls : calls[k].op = "populateIssueCache" /\ calls[k].ok}

\* The filter of every issue listing of the run is a name of every labelled
\* request of the run, and it is the marker of the identifier.
FilterIsAttached ==
    \A j \in IssueFetches :
        /\ calls[j].arg[1] = MarkerName(source)
        /\ \A k \in DOMAIN calls :
               (calls[k].op \in LabelledRequests /\ calls[k].ok) =>
                   calls[j].arg[1] \in Range(RequestedNames(calls[k]))

\* Once a run has fetched the listing, its cache holds every issue the
\* destination was given the marker on by an earlier run.
MarkedEarlierAreListed ==
    (pc = "findDuplicate" /\ LastCallIs("populateIssueCache")) =>
        \A k \in DOMAIN dstIssues :
            (dstIssues[k].run \in 1..(run - 1) /\ MarkerName(source) \in dstIssues[k].labels) =>
                dstIssues[k] \in Range(issueCache)

\* C25: for every source identifier, including those long enough to be
\* truncated, the label name used as the filter when the issue cache is
\* populated is identical to the marker label name attached to the issues
\* the run creates or re-labels, so an issue given the marker by one run is
\* returned by the filtered listing of a later run.
C25_FilterIsTheMarker ==
    FilterIsAttached /\ MarkedEarlierAreListed

\* C25 for src/index.ts and src/lib/repository.ts, which cut the filter as
\* they cut the marker.
C25_FilterIsTheMarkerOfSource ==
    impl # "dist" => C25_FilterIsTheMarker

\* C25 for dist/lib/repository.js and identifiers of at most 32 characters,
\* whose marker is not cut.
C25_FilterIsTheMarkerOfShortIdentifiers ==
    (impl = "dist" /\ Len(source) <= 32) => C25_FilterIsTheMarker

-----------------------------------------------------------------------------
(* C26: what a copy and a skip do to the source *)

SourceReads == {"getIssue", "populateSourceVisibility"}

\* The calls made for issue n that reach the source repository.
SourceCallsFor(n) == {k \in CallsFor(n) : calls[k].target # "destination"}

\* The issue the source holds under a number is the one that was fetched.
SourceHolds(i) ==
    /\ i.number \in DOMAIN srcIssues
    /\ srcIssues[i.number] =
           SourceIssue(i.title, i.labels, i.body, i.assignee, i.assignees)

\* For an issue that was copied or skipped, and for one being copied, the
\* source was reached by get-issue and the visibility query alone and still
\* holds the issue; labels are created and listings fetched at the
\* destination alone, and the caches of the source's objects are empty.
SourceUntouched ==
    /\ \A k \in ResultsOf(run) :
           results[k].kind \in {"copied", "skipped"} =>
               /\ \A j \in SourceCallsFor(results[k].issue.number) :
                      calls[j].op \in SourceReads /\ calls[j].target = "source"
               /\ SourceHolds(results[k].issue)
    /\ (issue # <<>> /\ mode = "copy") =>
           /\ \A j \in SourceCallsFor(issue[1].number) :
                  calls[j].op \in SourceReads /\ calls[j].target = "source"
           /\ SourceHolds(issue[1])
    /\ \A k \in DOMAIN calls :
           calls[k].op \in {"createLabelCall", "createIssue", "addLabels",
                            "populateIssueCache", "populateLabelCache"} =>
               calls[k].target = "destination"
    /\ sourceCaches = EmptyCaches

\* The issues of the source change in the transferIssue mutation alone.
SourceStep ==
    srcIssues' # srcIssues => (pc = "transferIssueMutation" /\ mode = "native")

\* C26: on the copy path and on the skipped path no mutating remote call
\* targets the source repository: the only calls made against the source
\* are get-issue and the visibility query, so the source issue and the
\* source repository's labels are unchanged after the run, and the caches
\* of the source's Repository objects stay empty.
C26_SourceUntouched ==
    []SourceUntouched /\ [][SourceStep]_vars

\* A run has ended after skipping one issue and copying another.
C26_Witness ==
    /\ pc = "done"
    /\ \E j, k \in ResultsOf(run) :
           results[j].kind = "skipped" /\ results[k].kind = "copied"
    /\ \E k \in DOMAIN calls : calls[k].op = "populateSourceVisibility"

=============================================================================
